---- MODULE Spec2Model ----
(***************************************************************************)
(* Poizon -> WooCommerce synchronisation.                                  *)
(*                                                                         *)
(* Three state machines share this module:                                 *)
(*   SpecBuild : the variation loop of get_product_full_info               *)
(*               (src/poizon_api_fixed.py), one loop iteration per step;   *)
(*   Spec      : sync_all_products (src/poizon_to_wordpress_service.py)    *)
(*               driving product_exists / create_product /                 *)
(*               update_product_variations against a destination catalog;  *)
(*   SpecPrice : SyncSettings.apply_price_transformation on drawn inputs.  *)
(*                                                                         *)
(* Conventions.  Python None is the string None, an unassigned local is    *)
(* the string Unbound.  A propertyValueId of 0 stands for a missing or     *)
(* falsy id.  Yuan prices after the minor-unit correction are carried as   *)
(* whole hundredths (PriceScale), currency rates as whole tenths           *)
(* (RateScale), so that price / 100 and rate 13.5 stay exact.              *)
(***************************************************************************)
EXTENDS Integers, Sequences, FiniteSets, TLC

VARIABLES
    \* ---- get_product_full_info: the variation loop ----
    sale_properties,   \* detail_data['saleProperties']['list']
    skus_array,        \* detail_data['skus']
    priced,            \* the entries of `prices` the loop has consumed, in order
    variations,        \* the list `variations`
    color,             \* the local `color` (Unbound until first assigned)
    properties,        \* the local `properties` (Unbound until first assigned)
    bpc,               \* "loop" | "returned" | "raised"
    \* ---- sync_all_products and the destination catalog ----
    products_list,     \* the filtered candidates (spuId, 0 = no spuId)
    update_existing,   \* the update_existing argument
    settings,          \* SyncSettings: currency_rate (tenths), markup_rubles
    idx,               \* position of the candidate being processed (1-based)
    pc,                \* position inside the loop body
    product,           \* the product returned by get_product_full_info
    existing_id,       \* the value returned by product_exists (0 = None)
    new_id,            \* the parent id create_product holds (0 = none yet)
    pending,           \* variations whose create call has not finished
    results,           \* _create_variations' `results`, in completion order
    cur,               \* what happened to the current candidate so far (history)
    counts,            \* created_count, updated_count, skipped_count, error_count
    catalog,           \* destination: sequence of parent products
    log,               \* one record per finished candidate (history)
    \* ---- apply_price_transformation on drawn inputs ----
    p_in,              \* price_yuan in hundredths
    p_out,             \* the values returned so far (empty before the call)
    \* ---- _load_categories / get_category_id ----
    cat_response,      \* the answer to GET products/categories: status_code, body
    category_tree,     \* self.category_tree {id: {name, parent}}
    category_cache,    \* self.category_cache {path or name: id}
    cat_i,             \* position of `for cat in categories` (1-based)
    cpc,               \* "idle" | "load" | "ready" | "answered"
    category_path,     \* the argument of get_category_id (a token sequence)
    cat_id,            \* the value get_category_id returned
    \* ---- get_product_full_info: the images ----
    image_block,       \* detail_data['image'] as the upstream sent it
    images,            \* the list `images`
    color_images_map,  \* color_images_map {propertyValueId: [url]}
    ipc,               \* "idle" | "images" | "colors" | "done" | "raised"
    \* ---- create_attribute_term ----
    terms,             \* destination: the terms of the global attributes
    term_cache,        \* self.term_cache {(attribute_id, term_name): term}
    tpc,               \* "idle" | "ready" | "search" | "post" | "fallback" | "fallback_generic"
    cache_key,         \* the key of the call in progress or just returned
    term_result,       \* the value the last call returned
    term_calls,        \* calls of create_attribute_term made so far
    term_requests,     \* destination requests this process has sent so far
    check_response,    \* how the last GET of the terms was answered
    \* ---- filter_products ----
    candidates,        \* the argument products_list
    filter_settings,   \* selected_spu_ids, selected_categories, selected_brands
    filtered,          \* the local `filtered`
    fpc,               \* "idle" | "ids" | "categories" | "brands" | "returned"
    \* ---- get_product_full_info: the scan of the sale properties ----
    value_maps,        \* size_value_map and color_value_map once scanned
    \* ---- get_product_full_info as one call ----
    info_call,         \* spu_id and the two upstream answers of the call
    info_result,       \* what the call returned
    \* ---- process_product: the enrichment step ----
    seo_call,          \* arguments of translate_and_generate_seo and the answers
    seo_data,          \* the dictionary it returned
    task_state,        \* "idle" | "PROGRESS" | "enriched" | "uploading" | "FAILURE"
    \* ---- one create call of the destination, with its retry loop ----
    retry_call,        \* which call it is and what each attempt would meet
    attempts,          \* requests sent so far
    rpc,               \* "idle" | "trying" | "ok" | "failed"
    \* ---- one create_product run: terms, parent, variations ----
    create_in,         \* unique_colors, final_sizes, variations and the answers met
    cphase,            \* "idle" | "start" | "colors" | "sizes" | "variations" | "returned" | "failed"
    in_flight,         \* tasks submitted to the executor and not yet completed
    color_names,       \* options of the colour attribute
    size_results,      \* sizes whose term call has completed, in completion order
    size_names,        \* options of the size attribute
    var_results,       \* results of create_single_variation as collected
    create_log,        \* calls of the run in the order they happened
    \* ---- process_product_task: the Celery tasks and the destination ----
    task_table,        \* per task: spu_id, position, what it found, its statuses
    dest_parents,      \* SKUs of the parent products of the destination, by id
    \* ---- one upstream price entry priced by both update paths ----
    po_in,             \* price (raw), currency_rate (tenths), markup_rubles
    po_out             \* path name -> regular_price written

vars == << sale_properties, skus_array, priced, variations, color, properties, bpc,
           products_list, update_existing, settings, idx, pc, product, existing_id,
           new_id, pending, results, cur, counts, catalog, log, p_in, p_out,
           cat_response, category_tree, category_cache, cat_i, cpc, category_path,
           cat_id, image_block, images, color_images_map, ipc,
           terms, term_cache, tpc, cache_key, term_result, term_calls, term_requests,
           check_response,
           candidates, filter_settings, filtered, fpc, value_maps, info_call,
           info_result, seo_call, seo_data, task_state, retry_call, attempts, rpc,
           create_in, cphase, in_flight, color_names, size_results, size_names,
           var_results, create_log,
           task_table, dest_parents,
           po_in, po_out >>

buildVars == << sale_properties, skus_array, priced, variations, color, properties, bpc >>
syncVars == << products_list, update_existing, settings, idx, pc, product, existing_id,
               new_id, pending, results, cur, counts, catalog, log >>
priceVars == << p_in, p_out >>
catVars == << cat_response, category_tree, category_cache, cat_i, cpc, category_path,
              cat_id >>
\* the variables of the machines added after the first three
imgVars == << image_block, images, color_images_map, ipc >>
termVars == << terms, term_cache, tpc, cache_key, term_result, term_calls,
               term_requests, check_response >>
filterVars == << candidates, filter_settings, filtered, fpc >>
scanVars == << value_maps >>
infoVars == << info_call, info_result >>
seoVars == << seo_call, seo_data, task_state >>
retryVars == << retry_call, attempts, rpc >>
createVars == << create_in, cphase, in_flight, color_names, size_results, size_names,
                 var_results, create_log >>
taskVars == << task_table, dest_parents >>
priceOnlyVars == << po_in, po_out >>
auxVars ==
    << catVars, imgVars, termVars, filterVars, scanVars, infoVars, seoVars, retryVars, createVars, taskVars,
       priceOnlyVars >>

None == "<None>"
Unbound == "<Unbound>"

----------------------------------------------------------------------------
(* Bounds *)

\* longest price map get_price_info returns
MaxPriced == 2

----------------------------------------------------------------------------
(* Generic helpers *)

RECURSIVE SeqsUpTo(_, _)
\* all sequences over S of length <= n
SeqsUpTo(S, n) ==
    IF n = 0 THEN { << >> }
    ELSE LET shorter == SeqsUpTo(S, n - 1)
         IN shorter \cup { Append(s, x) : s \in { t \in shorter : Len(t) = n - 1 }, x \in S }

Range(s) == { s[i] : i \in 1..Len(s) }

\* Python truthiness of a string-or-None value
Truthy(x) == x # None /\ x # Unbound /\ x # ""

----------------------------------------------------------------------------
(* Upstream payloads the variation loop is run on *)

\* A sale property: `name` is the set of marker substrings it contains
\* ("SIZE" for the size marker, "COLOR" for the colour marker), `value` its
\* text, `propertyValueId` its id (0 = absent).
SalePropUniverse ==
    << [name |-> {"SIZE"},  value |-> "41",  propertyValueId |-> 1],
       [name |-> {"SIZE"},  value |-> "42",  propertyValueId |-> 2],
       [name |-> {"COLOR"}, value |-> "hei", propertyValueId |-> 3],
       [name |-> {"COLOR"}, value |-> "bai", propertyValueId |-> 4] >>

RECURSIVE SubSeqs(_)
\* every subsequence of s (order kept)
SubSeqs(s) ==
    IF s = << >> THEN { << >> }
    ELSE LET rest == SubSeqs(Tail(s))
         IN rest \cup { << Head(s) >> \o t : t \in rest }

\* a list in which a colour entry carries the propertyValueId of a size entry
SharedIdProps ==
    << [name |-> {"SIZE"},  value |-> "41",  propertyValueId |-> 1],
       [name |-> {"SIZE"},  value |-> "42",  propertyValueId |-> 2],
       [name |-> {"COLOR"}, value |-> "hei", propertyValueId |-> 1] >>

SalePropsChoices == SubSeqs(SalePropUniverse) \cup { SharedIdProps }

\* property references of one SKU: nothing, one id, or colour then size
SizeIds == {1, 2}
ColorIds == {3, 4}
PropRefChoices ==
    { << >> } \cup { << i >> : i \in SizeIds \cup ColorIds }
        \cup { << c, s >> : c \in ColorIds, s \in SizeIds }

\* str() of a SKU id
Str(n) == << "1", "2", "3", "4", "5", "6", "7", "8", "9" >>[n]

\* skus arrays: SKUs 1..n in order, each with its property references
SkuIds == {1, 2}
SkusChoices ==
    UNION { { [i \in 1..n |-> [skuId |-> i, properties |-> f[i]]] :
                f \in [1..n -> PropRefChoices] } : n \in 0..Cardinality(SkuIds) }

\* keys of the price map: the SKUs of the array and one that is not in it
PricedSkuIds == { Str(i) : i \in SkuIds \cup {3} }
RawPrices == {5000, 10000, 10001, 15000}
Stocks == {5}

----------------------------------------------------------------------------
(* Attribute extractor: size_value_map / color_value_map *)

SizeMarker == "SIZE"
ColorMarker == "COLOR"
HasSizeMarker(prop) == SizeMarker \in prop.name
HasColorMarker(prop) == ColorMarker \in prop.name

\* the map {propertyValueId: value} the scan builds from the entries whose
\* name holds the marker; a later entry with the same id overwrites an
\* earlier one
ValueMap(sp, marker) ==
    LET hit(i) == marker \in sp[i].name /\ sp[i].value # "" /\ sp[i].propertyValueId # 0
        ids == { sp[i].propertyValueId : i \in { j \in 1..Len(sp) : hit(j) } }
        last(id) == CHOOSE i \in 1..Len(sp) :
                        /\ hit(i) /\ sp[i].propertyValueId = id
                        /\ \A j \in (i + 1)..Len(sp) :
                              ~(hit(j) /\ sp[j].propertyValueId = id)
    IN [id \in ids |-> sp[last(id)].value]

size_value_map(sp) == ValueMap(sp, SizeMarker)
color_value_map(sp) == ValueMap(sp, ColorMarker)

\* size_props = [p for p in sale_properties if size marker in p.name]
size_props(sp) == SelectSeq(sp, HasSizeMarker)

----------------------------------------------------------------------------
(* Variant builder: the body of `for ... in prices.items()` *)

\* index in skus_array of the first SKU whose str(skuId) is sku_id_str, 0 if none
FindSku(skus, sku_id_str) ==
    LET hits == { i \in 1..Len(skus) : Str(skus[i].skuId) = sku_id_str }
    IN IF hits = {} THEN 0 ELSE CHOOSE i \in hits : \A j \in hits : i <= j

RECURSIVE ScanProperties_ColorFirst(_, _, _, _, _)
\* mutant: the colour map tested before the size map
ScanProperties_ColorFirst(props, i, sz, col, sp) ==
    IF i > Len(props) THEN [size |-> sz, color |-> col]
    ELSE IF props[i] \in DOMAIN color_value_map(sp)
         THEN ScanProperties_ColorFirst(props, i + 1, sz, color_value_map(sp)[props[i]], sp)
         ELSE IF props[i] \in DOMAIN size_value_map(sp)
              THEN ScanProperties_ColorFirst(props, i + 1, size_value_map(sp)[props[i]], col, sp)
              ELSE ScanProperties_ColorFirst(props, i + 1, sz, col, sp)

RECURSIVE ScanProperties(_, _, _, _, _)
\* for prop in properties: size map is tested first, then the colour map
ScanProperties(props, i, sz, col, sp) ==
    IF i > Len(props) THEN [size |-> sz, color |-> col]
    ELSE IF props[i] \in DOMAIN size_value_map(sp)
         THEN ScanProperties(props, i + 1, size_value_map(sp)[props[i]], col, sp)
         ELSE IF props[i] \in DOMAIN color_value_map(sp)
              THEN ScanProperties(props, i + 1, sz, color_value_map(sp)[props[i]], sp)
              ELSE ScanProperties(props, i + 1, sz, col, sp)

\* the positional fallback: size_props[idx].value when idx < len(size_props)
\* (idx is the 0-based position of the SKU, pos its 1-based position)
PositionalSize(sp, pos, sz) ==
    IF Truthy(sz) THEN sz
    ELSE IF pos - 1 < Len(size_props(sp)) THEN size_props(sp)[pos].value ELSE sz

\* the locals size, color, properties after the search of skus_array
SearchSku(sp, skus, sku_id_str, col0, props0) ==
    LET pos == FindSku(skus, sku_id_str)
    IN IF pos = 0
       THEN [size |-> None, color |-> col0, properties |-> props0]
       ELSE LET scan == ScanProperties(skus[pos].properties, 1, None, None, sp)
            IN [size |-> PositionalSize(sp, pos, scan.size),
                color |-> scan.color,
                properties |-> skus[pos].properties]

\* if not size or size == 'None': size = sku_id_str
FinalSize(sz, sku_id_str) == IF ~Truthy(sz) \/ sz = "None" THEN sku_id_str ELSE sz

\* color_translations.get(color, color)
Translate(c) ==
    CASE c = "hei"   -> "Cherny"
      [] c = "heise" -> "Cherny"
      [] c = "bai"   -> "Bely"
      [] OTHER       -> c

MinorUnitThreshold == 10000
PriceScale == 100

\* mutant: the threshold taken inclusively
MinorUnitCorrection_Inclusive(raw) ==
    IF raw >= MinorUnitThreshold THEN raw ELSE raw * PriceScale

\* the minor-unit heuristic; the result is the yuan price in hundredths
MinorUnitCorrection(raw) ==
    IF raw > MinorUnitThreshold THEN raw ELSE raw * PriceScale

\* variation_data for one priced SKU
VariationData(sku_id_str, sz, col, entry) ==
    LET base == [sku_id |-> sku_id_str,
                 size   |-> FinalSize(sz, sku_id_str),
                 price  |-> MinorUnitCorrection(entry.price),
                 stock  |-> entry.stock]
    IN IF Truthy(col)
       THEN [k \in DOMAIN base \cup {"color"} |->
                IF k = "color" THEN Translate(col) ELSE base[k]]
       ELSE base

\* the colours carried by a variation list
DistinctColors(vs) == { vs[i].color : i \in { j \in 1..Len(vs) : "color" \in DOMAIN vs[j] } }

\* One iteration of the loop on the locals st = [variations, color, properties,
\* raised].  Reading the local `color` while it was never assigned raises
\* (UnboundLocalError), which leaves the loop.
LoopBody(sp, skus, st, entry) ==
    LET found == SearchSku(sp, skus, entry.sku_id, st.color, st.properties)
    IN IF found.color = Unbound
       THEN [st EXCEPT !.raised = TRUE]
       ELSE [variations |-> Append(st.variations,
                               VariationData(entry.sku_id, found.size, found.color, entry)),
             color      |-> found.color,
             properties |-> found.properties,
             raised     |-> FALSE]

LoopStart == [variations |-> << >>, color |-> Unbound, properties |-> Unbound,
              raised |-> FALSE]

RECURSIVE RunLoop(_, _, _, _, _)
\* the whole loop over prices.items(), from entry i on
RunLoop(sp, skus, prices, i, st) ==
    IF i > Len(prices) \/ st.raised THEN st
    ELSE RunLoop(sp, skus, prices, i + 1, LoopBody(sp, skus, st, prices[i]))

\* get_product_full_info returned None
NoProduct == [none |-> TRUE]
NoCur == [prices |-> "none", detail |-> "none"]

----------------------------------------------------------------------------
(* SpecBuild: get_product_full_info's variation loop, one iteration per step *)

InitSyncIdle ==
    /\ products_list = << >> /\ update_existing = FALSE
    /\ settings = [currency_rate |-> 0, markup_rubles |-> 0]
    /\ idx = 0 /\ pc = "idle" /\ product = NoProduct /\ existing_id = 0
    /\ new_id = 0 /\ pending = {} /\ results = << >> /\ cur = NoCur
    /\ counts = [created |-> 0, updated |-> 0, skipped |-> 0, error |-> 0]
    /\ catalog = << >> /\ log = << >>

InitPriceIdle == p_in = 0 /\ p_out = << >>

InitCatIdle ==
    /\ cat_response = [status_code |-> 0, body |-> << >>]
    /\ category_tree = << >> /\ category_cache = << >>
    /\ cat_i = 0 /\ cpc = "idle" /\ category_path = << >> /\ cat_id = 0

InitImgIdle ==
    /\ image_block = [kind |-> "absent"]
    /\ images = << >> /\ color_images_map = << >> /\ ipc = "idle"

\* create_attribute_term returned None
NoTerm == [none |-> TRUE]

InitTermIdle ==
    /\ terms = {} /\ term_cache = << >> /\ tpc = "idle"
    /\ cache_key = << 0, "" >> /\ term_result = NoTerm
    /\ term_calls = 0 /\ term_requests = 0 /\ check_response = "none"

InitFilterIdle ==
    /\ candidates = << >> /\ filtered = << >> /\ fpc = "idle"
    /\ filter_settings = [selected_spu_ids |-> << >>, selected_categories |-> << >>,
                          selected_brands |-> << >>]

\* nothing computed yet
Pending == [pending |-> TRUE]

InitScanIdle == value_maps = Pending
InitInfoIdle == info_call = Pending /\ info_result = Pending
InitSeoIdle == seo_call = Pending /\ seo_data = Pending /\ task_state = "idle"
InitRetryIdle == retry_call = Pending /\ attempts = 0 /\ rpc = "idle"

InitCreateIdle ==
    /\ create_in = Pending /\ cphase = "idle" /\ in_flight = {}
    /\ color_names = << >> /\ size_results = << >> /\ size_names = << >>
    /\ var_results = << >> /\ create_log = << >>

InitTaskIdle ==
    /\ task_table = << >> /\ dest_parents = << >>

InitPriceOnlyIdle ==
    /\ po_in = [price |-> 0, currency_rate |-> 0, markup_rubles |-> 0]
    /\ po_out = << >>

InitAuxIdle ==
    /\ InitCatIdle /\ InitImgIdle /\ InitTermIdle /\ InitFilterIdle
    /\ InitScanIdle /\ InitInfoIdle /\ InitSeoIdle /\ InitRetryIdle /\ InitCreateIdle /\ InitTaskIdle /\ InitPriceOnlyIdle

InitBuildIdle ==
    /\ sale_properties = << >> /\ skus_array = << >> /\ priced = << >>
    /\ variations = << >> /\ color = Unbound /\ properties = Unbound
    /\ bpc = "idle"

InitBuild ==
    /\ sale_properties \in SalePropsChoices
    /\ skus_array \in SkusChoices
    /\ priced = << >>
    /\ variations = << >>
    /\ color = Unbound
    /\ properties = Unbound
    /\ bpc = "loop"
    /\ InitSyncIdle /\ InitPriceIdle /\ InitAuxIdle

\* one iteration of the loop over prices.items(), on the next entry of the
\* price map; a raise is caught by the enclosing except (return None)
BuildVariation ==
    /\ bpc = "loop"
    /\ Len(priced) < MaxPriced
    /\ \E sku_id_str \in PricedSkuIds \ { priced[i].sku_id : i \in 1..Len(priced) },
          price \in RawPrices, stock \in Stocks :
          LET entry == [sku_id |-> sku_id_str, price |-> price, stock |-> stock]
              st == LoopBody(sale_properties, skus_array,
                             [variations |-> variations, color |-> color,
                              properties |-> properties, raised |-> FALSE], entry)
          IN /\ priced' = Append(priced, entry)
             /\ variations' = st.variations
             /\ color' = st.color
             /\ properties' = st.properties
             /\ bpc' = IF st.raised THEN "raised" ELSE "loop"
    /\ UNCHANGED << sale_properties, skus_array >>
    /\ UNCHANGED syncVars /\ UNCHANGED priceVars /\ UNCHANGED auxVars

\* the price map is exhausted: the product is returned with `variations`
BuildReturn ==
    /\ bpc = "loop"
    /\ bpc' = "returned"
    /\ UNCHANGED << sale_properties, skus_array, priced, variations, color, properties >>
    /\ UNCHANGED syncVars /\ UNCHANGED priceVars /\ UNCHANGED auxVars

NextBuild == BuildVariation \/ BuildReturn

SpecBuild == InitBuild /\ [][NextBuild]_vars

----------------------------------------------------------------------------
(* Price transformer: SyncSettings.apply_price_transformation *)

RateScale == 10

\* Python round() of the rational num / den (den > 0): nearest integer, a tie
\* goes to the even neighbour
Round(num, den) ==
    LET q == num \div den
        r == num - q * den
    IN IF 2 * r < den THEN q
       ELSE IF 2 * r > den THEN q + 1
       ELSE IF q % 2 = 0 THEN q ELSE q + 1

\* mutant: the markup applied as a percentage of the converted price
apply_price_transformation_Percent(st, price_yuan) ==
    LET price_rub == price_yuan * st.currency_rate
    IN Round(IF st.markup_rubles > 0
             THEN price_rub * (100 + st.markup_rubles) ELSE price_rub * 100,
             PriceScale * RateScale * 100)

\* price_yuan in hundredths, currency_rate in tenths, markup_rubles in rubles
apply_price_transformation(st, price_yuan) ==
    LET price_rub == price_yuan * st.currency_rate
    IN Round(IF st.markup_rubles > 0
             THEN price_rub + st.markup_rubles * PriceScale * RateScale
             ELSE price_rub,
             PriceScale * RateScale)

----------------------------------------------------------------------------
(* Upstream and destination seen by sync_all_products *)

\* longest filtered candidate list
MaxCandidates == 2

SpuIds == {1, 2}

\* productDetailV3 of a product: the first has two colours, the second one
DetailOf(spu) ==
    [spuId |-> spu,
     saleProperties |-> SalePropUniverse,
     skus |-> IF spu = 1
              THEN << [skuId |-> 1, properties |-> << 3, 1 >>],
                      [skuId |-> 2, properties |-> << 4, 2 >>] >>
              ELSE << [skuId |-> 1, properties |-> << 3, 1 >>],
                      [skuId |-> 2, properties |-> << 3, 2 >>] >>]

\* priceInfo answers: any subset of the SKUs, all at one of two price levels
PriceLevels == { [price |-> 100, stock |-> 5], [price |-> 15000, stock |-> 0] }
PriceMapOf(S, lv) ==
    LET ids == SelectSeq(<< 1, 2 >>, LAMBDA i : i \in S)
    IN [k \in 1..Len(ids) |->
            [sku_id |-> Str(ids[k]), price |-> lv.price, stock |-> lv.stock]]
SyncPriceMaps == { PriceMapOf(S, lv) : S \in SUBSET SkuIds, lv \in PriceLevels }

\* get_product_detail_v3: None on any request error
DetailResponses(spu) == { [ok |-> FALSE], [ok |-> TRUE, data |-> DetailOf(spu)] }
\* get_price_info: {} on any request error, else the parsed map
PriceResponses == { [ok |-> FALSE] } \cup { [ok |-> TRUE, data |-> m] : m \in SyncPriceMaps }

\* detail.get('spuId'): the id the payload carries, 0 (None) when it has none
PayloadSpuId(data) == IF "spuId" \in DOMAIN data THEN data.spuId ELSE 0

\* str() of an id or of None
PyStr(n) == IF n = 0 THEN "None" ELSE Str(n)

\* get_product_full_info(spu_id) on the two upstream answers
get_product_full_info(detail_resp, price_resp) ==
    IF ~detail_resp.ok THEN NoProduct
    ELSE LET prices == IF price_resp.ok THEN price_resp.data ELSE << >>
             st == RunLoop(detail_resp.data.saleProperties, detail_resp.data.skus,
                           prices, 1, LoopStart)
         IN IF st.raised THEN NoProduct
            ELSE [spu_id |-> PayloadSpuId(detail_resp.data),
                  sku |-> PyStr(PayloadSpuId(detail_resp.data)),
                  variations |-> st.variations]

SettingsChoices == { [currency_rate |-> 135, markup_rubles |-> 500] }

\* ---- create_product ----

\* unique_colors = set(v['color'] for v in product.variations if 'color' in v)
\* mutant: a colour attribute as soon as any colour is present
use_color_attribute_AnyColor(vs) == Cardinality(DistinctColors(vs)) > 0

\* use_color_attribute = len(unique_colors) > 1
use_color_attribute(vs) == Cardinality(DistinctColors(vs)) > 1

max_retries == 3
Outcomes == {"ok", "http_error", "timeout"}

RECURSIVE ParentPost(_, _)
\* the parent POST with retry: any exception is retried until the last attempt
ParentPost(outs, attempt) ==
    IF outs[attempt] = "ok" THEN TRUE
    ELSE IF attempt < max_retries THEN ParentPost(outs, attempt + 1)
    ELSE FALSE

RECURSIVE VariationPost(_, _)
\* the variation POST with retry: only an HTTPError is retried; any other
\* exception leaves the loop at once
VariationPost(outs, attempt) ==
    IF outs[attempt] = "ok" THEN TRUE
    ELSE IF outs[attempt] = "http_error" /\ attempt < max_retries
         THEN VariationPost(outs, attempt + 1)
    ELSE FALSE

\* var_data of create_single_variation as the destination stores it
VarData(variation, use_color, st, id) ==
    [id |-> id,
     sku |-> variation.sku_id,
     regular_price |-> apply_price_transformation(st, variation.price),
     stock_quantity |-> variation.stock,
     attributes |->
        IF use_color /\ "color" \in DOMAIN variation /\ Truthy(variation.color)
        THEN [color |-> variation.color, size |-> variation.size]
        ELSE [size |-> variation.size]]

\* ---- product_exists ----

\* ids of the destination parents with this SKU
ParentsWithSku(cat, sku) == { i \in 1..Len(cat) : cat[i].sku = sku }

\* ---- update_product_variations ----

\* mutant: the first destination variation is taken whatever its SKU
SkuMatches_Any(wc_var, sku_id) == TRUE

\* if wc_var.get('sku') == sku_id
SkuMatches(wc_var, sku_id) == wc_var.sku = sku_id

\* position of the first existing variation with this SKU, 0 if none
FindVariation(existing, sku_id) ==
    LET hits == { k \in 1..Len(existing) : SkuMatches(existing[k], sku_id) }
    IN IF hits = {} THEN 0 ELSE CHOOSE k \in hits : \A j \in hits : k <= j

RECURSIVE UpdateLoop(_, _, _, _, _)
\* `for variation in product.variations`: the PUT of the fail_at-th variation
\* of the product raises (0: none does).  st = [vars, updated_count, written,
\* raised]: the destination variations, the counter, the PUTs that succeeded.
UpdateLoop(vs, i, fail_at, sett, st) ==
    IF i > Len(vs) \/ st.raised THEN st
    ELSE LET k == FindVariation(st.vars, vs[i].sku_id)
         IN IF k = 0 THEN UpdateLoop(vs, i + 1, fail_at, sett, st)
            ELSE IF i = fail_at THEN [st EXCEPT !.raised = TRUE]
            ELSE UpdateLoop(vs, i + 1, fail_at, sett,
                    [st EXCEPT
                       !.vars[k].regular_price =
                            apply_price_transformation(sett, vs[i].price),
                       !.vars[k].stock_quantity = vs[i].stock,
                       !.updated_count = @ + 1,
                       !.written = @ \cup {k}])

\* update_product_variations: [vars, returned, written, raised]
update_product_variations(existing, prod, sett, get_ok, fail_at) ==
    IF ~get_ok
    THEN [vars |-> existing, returned |-> 0, written |-> {}, raised |-> TRUE]
    ELSE LET st == UpdateLoop(prod.variations, 1, fail_at, sett,
                      [vars |-> existing, updated_count |-> 0, written |-> {},
                       raised |-> FALSE])
         IN [vars |-> st.vars,
             returned |-> IF st.raised THEN 0 ELSE st.updated_count,
             written |-> st.written,
             raised |-> st.raised]

----------------------------------------------------------------------------
(* Spec: sync_all_products, one step per call it makes *)

Bump(c, outcome) == [c EXCEPT ![outcome] = @ + 1]

\* the record kept of a finished candidate
Entry(spu, outcome, path, c, write_failed, returned, written) ==
    [spu |-> spu, outcome |-> outcome, path |-> path,
     detail |-> c.detail, prices |-> c.prices,
     write_failed |-> write_failed, returned |-> returned, written |-> written]

\* mutant: the loop is left on the first error
NextCandidate_AbortOnError(i, outcome) ==
    IF outcome = "error" THEN Len(products_list) + 1 ELSE i + 1

\* the for loop moves to the next candidate whatever the outcome was
NextCandidate(i, outcome) == i + 1

\* the candidate is finished with `outcome`: one counter moves, the loop goes on
Finished(outcome, path, c, write_failed, returned, written) ==
    /\ counts' = Bump(counts, outcome)
    /\ log' = Append(log, Entry(products_list[idx], outcome, path, c,
                                write_failed, returned, written))
    /\ idx' = NextCandidate(idx, outcome)
    /\ pc' = "next"
    /\ product' = NoProduct /\ existing_id' = 0 /\ new_id' = 0
    /\ pending' = {} /\ results' = << >> /\ cur' = NoCur

\* the candidate lists get_all_products and filter_products hand to the loop:
\* basic product records reduced to their spuId (0 = no spuId)
CandidateLists == SeqsUpTo(SpuIds \cup {0}, MaxCandidates)

InitSync ==
    /\ products_list \in CandidateLists
    /\ update_existing \in BOOLEAN
    /\ settings \in SettingsChoices
    /\ idx = 1 /\ pc = "next"
    /\ product = NoProduct /\ existing_id = 0 /\ new_id = 0
    /\ pending = {} /\ results = << >> /\ cur = NoCur
    /\ counts = [created |-> 0, updated |-> 0, skipped |-> 0, error |-> 0]
    /\ catalog = << >> /\ log = << >>
    /\ InitBuildIdle /\ InitPriceIdle /\ InitAuxIdle

\* `if not spu_id`: skipped_count += 1; continue
SkipNoSpuId ==
    /\ pc = "next" /\ idx <= Len(products_list)
    /\ products_list[idx] = 0
    /\ Finished("skipped", "none", cur, FALSE, 0, 0)
    /\ UNCHANGED << products_list, update_existing, settings, catalog >>
    /\ UNCHANGED buildVars /\ UNCHANGED priceVars /\ UNCHANGED auxVars

\* product = self.poizon.get_product_full_info(spu_id); `if not product`:
\* error_count += 1; continue
FetchFullInfo ==
    /\ pc = "next" /\ idx <= Len(products_list)
    /\ products_list[idx] # 0
    /\ \E detail_resp \in DetailResponses(products_list[idx]),
          price_resp \in PriceResponses :
          LET prod == get_product_full_info(detail_resp, price_resp)
              c == [detail |-> IF detail_resp.ok THEN "ok" ELSE "failed",
                    prices |-> IF ~detail_resp.ok THEN "none"
                               ELSE IF ~price_resp.ok THEN "failed"
                               ELSE IF price_resp.data = << >> THEN "empty"
                               ELSE "ok"]
          IN IF prod = NoProduct
             THEN Finished("error", "none", c, FALSE, 0, 0)
             ELSE /\ product' = prod
                  /\ cur' = c
                  /\ pc' = "exists"
                  /\ UNCHANGED << idx, existing_id, new_id, pending, results,
                                  counts, log >>
    /\ UNCHANGED << products_list, update_existing, settings, catalog >>
    /\ UNCHANGED buildVars /\ UNCHANGED priceVars /\ UNCHANGED auxVars

\* existing_id = self.woocommerce.product_exists(product.sku): the id of a
\* parent with that SKU, None when there is none and None on any request
\* error; then the branch on existing_id and update_existing
ProductExists ==
    /\ pc = "exists"
    /\ \E lookup_ok \in BOOLEAN :
          LET found == IF lookup_ok THEN ParentsWithSku(catalog, product.sku) ELSE {}
          IN \E id \in IF found = {} THEN {0} ELSE found :
                IF id # 0 /\ ~update_existing
                THEN Finished("skipped", "skip", cur, FALSE, 0, 0)
                ELSE /\ existing_id' = id
                     /\ pc' = IF id # 0 THEN "update" ELSE "create"
                     /\ UNCHANGED << idx, product, new_id, pending, results, cur,
                                     counts, log >>
    /\ UNCHANGED << products_list, update_existing, settings, catalog >>
    /\ UNCHANGED buildVars /\ UNCHANGED priceVars /\ UNCHANGED auxVars

\* self.woocommerce.update_product_variations(existing_id, product, settings);
\* updated_count += 1
UpdateVariations ==
    /\ pc = "update"
    /\ \E get_ok \in BOOLEAN, fail_at \in 0..Len(product.variations) :
          LET r == update_product_variations(catalog[existing_id].variations,
                                             product, settings, get_ok, fail_at)
          IN /\ catalog' = [catalog EXCEPT ![existing_id].variations = r.vars]
             /\ Finished("updated", "update", cur, r.raised /\ get_ok,
                         r.returned, Cardinality(r.written))
    /\ UNCHANGED << products_list, update_existing, settings >>
    /\ UNCHANGED buildVars /\ UNCHANGED priceVars /\ UNCHANGED auxVars

\* create_product up to the parent POST (with its retries); a failed POST
\* makes create_product return None: error_count += 1
CreateParent ==
    /\ pc = "create"
    /\ \E outs \in [1..max_retries -> Outcomes] :
          IF ParentPost(outs, 1)
          THEN /\ catalog' = Append(catalog,
                     [id |-> Len(catalog) + 1,
                      sku |-> product.sku,
                      color_options |->
                          IF use_color_attribute(product.variations)
                          THEN DistinctColors(product.variations) ELSE {},
                      variations |-> << >>])
               /\ new_id' = Len(catalog) + 1
               /\ pending' = 1..Len(product.variations)
               /\ results' = << >>
               /\ pc' = "variations"
               /\ UNCHANGED << idx, product, existing_id, cur, counts, log >>
          ELSE /\ Finished("error", "create", cur, TRUE, 0, 0)
               /\ UNCHANGED catalog
    /\ UNCHANGED << products_list, update_existing, settings >>
    /\ UNCHANGED buildVars /\ UNCHANGED priceVars /\ UNCHANGED auxVars

\* one create_single_variation call of the worker pool finishes (the calls
\* finish in any order); its failure is logged and swallowed
CreateSingleVariation ==
    /\ pc = "variations"
    /\ \E i \in pending, outs \in [1..max_retries -> Outcomes] :
          LET ok == VariationPost(outs, 1)
              parent == catalog[new_id]
              var == VarData(product.variations[i],
                             use_color_attribute(product.variations), settings,
                             Len(parent.variations) + 1)
          IN /\ pending' = pending \ {i}
             /\ results' = Append(results, [success |-> ok, idx |-> i])
             /\ catalog' = IF ok
                           THEN [catalog EXCEPT ![new_id].variations = Append(@, var)]
                           ELSE catalog
    /\ UNCHANGED << products_list, update_existing, settings, idx, pc, product,
                    existing_id, new_id, cur, counts, log >>
    /\ UNCHANGED buildVars /\ UNCHANGED priceVars /\ UNCHANGED auxVars

\* _create_variations is over, create_product returns product_id:
\* created_count += 1
CreateReturn ==
    /\ pc = "variations" /\ pending = {}
    /\ Finished("created", "create", cur,
                \E k \in 1..Len(results) : ~results[k].success, 0,
                Cardinality({ k \in 1..Len(results) : results[k].success }))
    /\ UNCHANGED << products_list, update_existing, settings, catalog >>
    /\ UNCHANGED buildVars /\ UNCHANGED priceVars /\ UNCHANGED auxVars

\* the loop is exhausted: the tally is logged
SyncDone ==
    /\ pc = "next" /\ idx > Len(products_list)
    /\ pc' = "done"
    /\ UNCHANGED << products_list, update_existing, settings, idx, product,
                    existing_id, new_id, pending, results, cur, counts, catalog, log >>
    /\ UNCHANGED buildVars /\ UNCHANGED priceVars /\ UNCHANGED auxVars

Next ==
    \/ SkipNoSpuId
    \/ FetchFullInfo
    \/ ProductExists
    \/ UpdateVariations
    \/ CreateParent
    \/ CreateSingleVariation
    \/ CreateReturn
    \/ SyncDone

Spec == InitSync /\ [][Next]_vars

----------------------------------------------------------------------------
(* SpecPrice: apply_price_transformation called on drawn inputs *)

\* largest whole-yuan price drawn
MaxYuan == 5

\* price_yuan in hundredths: whole yuan, and values the minor-unit correction
\* produces (100.00, 100.01, 150.00)
PriceInputs == { PriceScale * k : k \in 0..MaxYuan } \cup {10000, 10001, 15000}
\* currency_rate in tenths (13.5, 12.5, 1.0) and markup_rubles
PriceSettings ==
    { [currency_rate |-> r, markup_rubles |-> m] : r \in {135, 125, 10}, m \in {-100, 0, 500} }

InitPrice ==
    /\ p_in \in PriceInputs
    /\ p_out = << >>
    /\ settings \in PriceSettings
    /\ products_list = << >> /\ update_existing = FALSE
    /\ idx = 0 /\ pc = "idle" /\ product = NoProduct /\ existing_id = 0
    /\ new_id = 0 /\ pending = {} /\ results = << >> /\ cur = NoCur
    /\ counts = [created |-> 0, updated |-> 0, skipped |-> 0, error |-> 0]
    /\ catalog = << >> /\ log = << >>
    /\ InitBuildIdle /\ InitAuxIdle

\* settings.apply_price_transformation(price_yuan)
ApplyPrice ==
    /\ p_out = << >>
    /\ p_out' = << apply_price_transformation(settings, p_in) >>
    /\ UNCHANGED p_in
    /\ UNCHANGED syncVars /\ UNCHANGED buildVars /\ UNCHANGED auxVars

NextPrice == ApplyPrice

SpecPrice == InitPrice /\ [][NextPrice]_vars

----------------------------------------------------------------------------
(* SpecCat: _load_categories, then get_category_id *)

\* most categories the destination answers with
MaxCats == 3

CatNames == {"A", "B"}

\* a string is a sequence of tokens: names, and ">" for the separator " > "
Sep == ">"

RECURSIVE Join(_)
\* ' > '.join(path_parts)
Join(parts) ==
    IF Len(parts) = 0 THEN << >>
    ELSE IF Len(parts) = 1 THEN << parts[1] >>
    ELSE Join(SubSeq(parts, 1, Len(parts) - 1)) \o << Sep, parts[Len(parts)] >>

RECURSIVE Split(_)
\* [p.strip() for p in category_path.split('>')]: a list of segments, each
\* the tokens between two separators ('' when there is none)
Split(str) ==
    LET seps == { i \in 1..Len(str) : str[i] = Sep }
    IN IF seps = {} THEN << str >>
       ELSE LET last == CHOOSE i \in seps : \A j \in seps : j <= i
            IN Split(SubSeq(str, 1, last - 1)) \o << SubSeq(str, last + 1, Len(str)) >>

RECURSIVE Reaches(_, _, _, _)
\* following `parent` from id for n steps arrives at 0 or outside the list
Reaches(cats, id, n, root) ==
    IF id = root \/ id \notin 1..Len(cats) THEN TRUE
    ELSE IF n = 0 THEN FALSE
    ELSE Reaches(cats, cats[id].parent, n - 1, root)

\* the category lists of a destination: category i has id i, a name, and a
\* parent that is 0 or another category, without cycles; a parent may stand
\* after its child in the list
CategoryLists ==
    UNION { { c \in [1..n -> [id : 1..n, name : CatNames, parent : 0..n]] :
                \A i \in 1..n : c[i].id = i /\ Reaches(c, i, n, 0) } : n \in 0..MaxCats }

CatResponses ==
    { [status_code |-> 200, body |-> c] : c \in CategoryLists }
        \cup { [status_code |-> 500, body |-> << >>] }

\* the paths get_category_id is asked for: one or two names joined by " > "
CategoryPaths == { Join(q) : q \in SeqsUpTo(CatNames, 2) \ { << >> } }

RECURSIVE BuildPathParts(_, _)
\* the while loop of _build_category_path: names from the root down, as far
\* up as the parents are in the tree
BuildPathParts(tree, current_id) ==
    IF current_id > 0 /\ current_id \in DOMAIN tree
    THEN Append(BuildPathParts(tree, tree[current_id].parent), tree[current_id].name)
    ELSE << >>

\* _build_category_path(category_id)
_build_category_path(tree, category_id) ==
    IF category_id \notin DOMAIN tree THEN << >>
    ELSE Join(BuildPathParts(tree, category_id))

\* d[key] = value on a dict
DictSet(d, key, value) ==
    [k \in DOMAIN d \cup {key} |-> IF k = key THEN value ELSE d[k]]

\* get_category_id(category_path) on a cache
get_category_id(cache, path) ==
    IF path \in DOMAIN cache THEN cache[path]
    ELSE LET parts == Split(path)
             last_part == parts[Len(parts)]
         IN IF last_part \in DOMAIN cache THEN cache[last_part] ELSE 0

InitCat ==
    /\ cat_response \in CatResponses
    /\ category_tree = << >> /\ category_cache = << >>
    /\ cat_i = 1 /\ cpc = "load"
    /\ category_path = << >> /\ cat_id = 0
    /\ InitBuildIdle /\ InitSyncIdle /\ InitPriceIdle /\ InitImgIdle /\ InitTermIdle
    /\ InitFilterIdle /\ InitScanIdle /\ InitInfoIdle /\ InitSeoIdle /\ InitRetryIdle /\ InitCreateIdle /\ InitTaskIdle /\ InitPriceOnlyIdle

catFrame ==
    UNCHANGED << buildVars, syncVars, priceVars, imgVars, termVars, filterVars,
                 scanVars, infoVars, seoVars, retryVars, createVars, taskVars, priceOnlyVars >>

\* the response is not a 200: nothing is cached
LoadRejected ==
    /\ cpc = "load" /\ cat_response.status_code # 200
    /\ cpc' = "ready"
    /\ UNCHANGED << cat_response, category_tree, category_cache, cat_i,
                    category_path, cat_id >>
    /\ catFrame

\* one iteration of `for cat in categories`
LoadCategory ==
    /\ cpc = "load" /\ cat_response.status_code = 200
    /\ cat_i <= Len(cat_response.body)
    /\ LET cat == cat_response.body[cat_i]
           tree == DictSet(category_tree, cat.id, [name |-> cat.name, parent |-> cat.parent])
           path == _build_category_path(tree, cat.id)
       IN /\ category_tree' = tree
          /\ category_cache' = DictSet(DictSet(category_cache, path, cat.id),
                                       << cat.name >>, cat.id)
    /\ cat_i' = cat_i + 1
    /\ UNCHANGED << cat_response, cpc, category_path, cat_id >>
    /\ catFrame

\* the loop is exhausted
LoadDone ==
    /\ cpc = "load" /\ cat_response.status_code = 200
    /\ cat_i > Len(cat_response.body)
    /\ cpc' = "ready"
    /\ UNCHANGED << cat_response, category_tree, category_cache, cat_i,
                    category_path, cat_id >>
    /\ catFrame

\* a call of get_category_id
GetCategoryId ==
    /\ cpc = "ready"
    /\ \E path \in CategoryPaths :
          /\ category_path' = path
          /\ cat_id' = get_category_id(category_cache, path)
    /\ cpc' = "answered"
    /\ UNCHANGED << cat_response, category_tree, category_cache, cat_i >>
    /\ catFrame

NextCat == LoadRejected \/ LoadCategory \/ LoadDone \/ GetCategoryId

SpecCat == InitCat /\ [][NextCat]_vars

----------------------------------------------------------------------------
(* SpecImg: the image part of get_product_full_info *)

\* most entries of spuImage.images
MaxImages == 20

\* colour sale properties in any order of their ids
ImgColorIds == {3, 4, 5, 6}
ColorProp(id) == [name |-> {ColorMarker}, value |-> Str(id), propertyValueId |-> id]
ColorPropLists ==
    { sp \in SeqsUpTo({ ColorProp(id) : id \in ImgColorIds }, Cardinality(ImgColorIds)) :
        \A i, j \in 1..Len(sp) : i # j => sp[i] # sp[j] }

\* spuImage.images: entry i carries url i; the first entry may have no url (0)
ImageLists ==
    { [i \in 1..n |-> [url |-> IF i = 1 /\ blank THEN 0 ELSE i]] :
        n \in 0..MaxImages, blank \in BOOLEAN }

\* colorBlockImages: the items of the dict in order (none: absent or empty)
ColorBlockChoices ==
    { << >>,
      << [key |-> "3", urls |-> << 101, 102 >>] >>,
      << [key |-> "3", urls |-> << >>] >>,
      << [key |-> "3", urls |-> << 101 >>], [key |-> "red", urls |-> << 102 >>] >> }

\* detail_data['image']: missing, null, or a block with spuImage
ImageBlocks ==
    { [kind |-> "absent"], [kind |-> "null"] }
        \cup { [kind |-> "present", images |-> l, colorBlockImages |-> cbi] :
                 l \in ImageLists, cbi \in ColorBlockChoices }

\* int(prop_id_str): the number, or 0 where int() raises ValueError
IntOf(str) ==
    IF \E n \in 1..9 : Str(n) = str THEN CHOOSE n \in 1..9 : Str(n) = str ELSE 0

\* images_list of an image block (image_data.get('images', []))
ImagesListOf(block) == IF block.kind = "present" THEN block.images ELSE << >>
ColorBlockOf(block) == IF block.kind = "present" THEN block.colorBlockImages ELSE << >>

\* for img in images_list: if img_url: images.append(img_url)
ExtractUrls(images_list) ==
    LET kept == SelectSeq(images_list, LAMBDA img : img.url # 0)
    IN [i \in 1..Len(kept) |-> kept[i].url]

RECURSIVE SortedSeq(_)
\* sorted(keys)
SortedSeq(S) ==
    IF S = {} THEN << >>
    ELSE LET least == CHOOSE x \in S : \A y \in S : x <= y
         IN << least >> \o SortedSeq(S \ {least})

RECURSIVE InsertionOrder(_, _)
\* the keys of color_value_map in the order the scan inserted them
InsertionOrder(sp, seen) ==
    IF sp = << >> THEN << >>
    ELSE LET id == Head(sp).propertyValueId
         IN IF id \in DOMAIN color_value_map(<< Head(sp) >>) /\ id \notin seen
            THEN << id >> \o InsertionOrder(Tail(sp), seen \cup {id})
            ELSE InsertionOrder(Tail(sp), seen)

\* mutant: the colours taken in dict order instead of sorted
color_ids_Unsorted(sp) == InsertionOrder(sp, {})

\* color_ids = sorted(color_value_map.keys())
color_ids(sp) == SortedSeq(DOMAIN color_value_map(sp))

RECURSIVE PartitionLoop(_, _, _, _, _)
\* for idx, color_id in enumerate(color_ids): the slice of images_per_color
\* images from idx * images_per_color, kept when it is not empty
PartitionLoop(imgs, ids, i, images_per_color, map) ==
    IF i > Len(ids) THEN map
    ELSE LET start_idx == (i - 1) * images_per_color
             end_idx == start_idx + images_per_color
             last == IF end_idx < Len(imgs) THEN end_idx ELSE Len(imgs)
             color_specific_imgs == SubSeq(imgs, start_idx + 1, last)
         IN PartitionLoop(imgs, ids, i + 1, images_per_color,
                IF color_specific_imgs # << >>
                THEN DictSet(map, ids[i], color_specific_imgs) ELSE map)

\* the positional fallback
PartitionImages(imgs, sp) ==
    IF imgs # << >> /\ DOMAIN color_value_map(sp) # {}
    THEN PartitionLoop(imgs, color_ids(sp), 1,
                       Len(imgs) \div Cardinality(DOMAIN color_value_map(sp)), << >>)
    ELSE << >>

RECURSIVE ColorBlockLoop(_, _, _)
\* for prop_id_str, img_list in color_block_images.items(): [map, raised]
ColorBlockLoop(items, i, st) ==
    IF i > Len(items) \/ st.raised THEN st
    ELSE IF IntOf(items[i].key) = 0 THEN [st EXCEPT !.raised = TRUE]
    ELSE ColorBlockLoop(items, i + 1,
            IF items[i].urls # << >>
            THEN [st EXCEPT !.map = DictSet(@, IntOf(items[i].key), items[i].urls)]
            ELSE st)

InitImg ==
    /\ image_block \in ImageBlocks
    /\ images = << >> /\ color_images_map = << >> /\ ipc = "images"
    /\ sale_properties \in ColorPropLists
    /\ skus_array = << >> /\ priced = << >> /\ variations = << >>
    /\ color = Unbound /\ properties = Unbound /\ bpc = "idle"
    /\ InitSyncIdle /\ InitPriceIdle /\ InitCatIdle /\ InitTermIdle
    /\ InitFilterIdle /\ InitScanIdle /\ InitInfoIdle /\ InitSeoIdle /\ InitRetryIdle /\ InitCreateIdle /\ InitTaskIdle /\ InitPriceOnlyIdle

imgFrame ==
    UNCHANGED << buildVars, syncVars, priceVars, catVars, termVars, filterVars,
                 scanVars, infoVars, seoVars, retryVars, createVars, taskVars, priceOnlyVars >>

\* image_root = detail_data.get('image', {}); image_root.get(...) raises on a
\* null block (the except returns None); then the urls are collected
ExtractImages ==
    /\ ipc = "images"
    /\ IF image_block.kind = "null"
       THEN ipc' = "raised" /\ UNCHANGED images
       ELSE /\ images' = ExtractUrls(ImagesListOf(image_block))
            /\ ipc' = "colors"
    /\ UNCHANGED << image_block, color_images_map >>
    /\ imgFrame

\* colorBlockImages is a non-empty dict: the explicit grouping
GroupByColorBlock ==
    /\ ipc = "colors" /\ ColorBlockOf(image_block) # << >>
    /\ LET st == ColorBlockLoop(ColorBlockOf(image_block), 1,
                                [map |-> << >>, raised |-> FALSE])
       IN IF st.raised
          THEN ipc' = "raised" /\ UNCHANGED color_images_map
          ELSE ipc' = "done" /\ color_images_map' = st.map
    /\ UNCHANGED << image_block, images >>
    /\ imgFrame

\* colorBlockImages is empty or missing: the positional fallback
PartitionFallback ==
    /\ ipc = "colors" /\ ColorBlockOf(image_block) = << >>
    /\ color_images_map' = PartitionImages(images, sale_properties)
    /\ ipc' = "done"
    /\ UNCHANGED << image_block, images >>
    /\ imgFrame

NextImg == ExtractImages \/ GroupByColorBlock \/ PartitionFallback

SpecImg == InitImg /\ [][NextImg]_vars

----------------------------------------------------------------------------
(* SpecTerm: create_attribute_term against the destination's term registry *)

\* calls of create_attribute_term in one process
MaxTermCalls == 3

TermAttributeIds == {1, 2}
TermNames == {"red", "42"}
CacheKeys == { << a, n >> : a \in TermAttributeIds, n \in TermNames }

\* a term as the destination answers it (slug omitted: it follows the name)
Term(id, key) == [id |-> id, attribute_id |-> key[1], name |-> key[2]]

\* `for term in existing: if term['name'] == term_name`: the terms of the
\* attribute that carry exactly this name
TermsNamed(ts, key) == { t \in ts : t.attribute_id = key[1] /\ t.name = key[2] }

\* answers to a GET of the attribute's terms: an error status or an
\* exception, or one page of terms, which holds the term looked for or not
GetAnswers(ts, key) ==
    { [kind |-> "status", found |-> {}], [kind |-> "raise", found |-> {}],
      [kind |-> "page", found |-> {}] }
        \cup { [kind |-> "page", found |-> {t}] : t \in TermsNamed(ts, key) }

\* mutant: the cache is never consulted
CacheHit_Never(cache, key) == FALSE

\* if cache_key in self.term_cache
CacheHit(cache, key) == key \in DOMAIN cache

InitTerm ==
    /\ terms \in { {}, { Term(1, << 1, "red" >>) } }
    /\ term_cache = << >> /\ tpc = "ready"
    /\ cache_key = << 0, "" >> /\ term_result = NoTerm
    /\ term_calls = 0 /\ term_requests = 0 /\ check_response = "none"
    /\ InitBuildIdle /\ InitSyncIdle /\ InitPriceIdle /\ InitCatIdle /\ InitImgIdle
    /\ InitFilterIdle /\ InitScanIdle /\ InitInfoIdle /\ InitSeoIdle /\ InitRetryIdle /\ InitCreateIdle /\ InitTaskIdle /\ InitPriceOnlyIdle

termFrame ==
    UNCHANGED << buildVars, syncVars, priceVars, catVars, imgVars, filterVars,
                 scanVars, infoVars, seoVars, retryVars, createVars, taskVars, priceOnlyVars >>

\* the call returns `result`
TermReturn(result) ==
    /\ term_result' = result
    /\ tpc' = "ready"

\* a call starts: a cache hit returns at once, a miss goes on to the search
CallCreateAttributeTerm ==
    /\ tpc = "ready" /\ term_calls < MaxTermCalls
    /\ \E key \in CacheKeys :
          /\ cache_key' = key
          /\ IF CacheHit(term_cache, key)
             THEN TermReturn(term_cache[key])
             ELSE tpc' = "search" /\ UNCHANGED term_result
    /\ term_calls' = term_calls + 1
    /\ UNCHANGED << terms, term_cache, term_requests, check_response >>
    /\ termFrame

\* GET .../terms?search=term_name: an exact name match is cached and returned
SearchTerm ==
    /\ tpc = "search"
    /\ \E ans \in GetAnswers(terms, cache_key) :
          /\ check_response' = ans.kind
          /\ IF ans.kind = "raise"
             THEN TermReturn(NoTerm) /\ UNCHANGED term_cache
             ELSE IF ans.found # {}
             THEN \E t \in ans.found :
                     /\ term_cache' = DictSet(term_cache, cache_key, t)
                     /\ TermReturn(t)
             ELSE tpc' = "post" /\ UNCHANGED << term_cache, term_result >>
    /\ term_requests' = term_requests + 1
    /\ UNCHANGED << terms, cache_key, term_calls >>
    /\ termFrame

\* POST .../terms {name}: 201 creates the term; the destination refuses a
\* name the attribute already has with 400 ("conflict") and may refuse the
\* request itself with 400 ("bad_request"): either 400 goes on to the
\* follow-up search; any other status, or an exception (with the term
\* created or not), returns None
PostTerm ==
    /\ tpc = "post"
    /\ LET exists == TermsNamed(terms, cache_key) # {}
           created == Term(Cardinality(terms) + 1, cache_key)
       IN \E ans \in {"created", "conflict", "bad_request", "status", "raise",
                     "raise_created"} :
             /\ ans \in {"created", "raise_created"} => ~exists
             /\ ans = "conflict" => exists
             /\ CASE ans = "created" ->
                       /\ terms' = terms \cup {created}
                       /\ term_cache' = DictSet(term_cache, cache_key, created)
                       /\ TermReturn(created)
                  [] ans \in {"conflict", "bad_request"} ->
                       /\ tpc' = IF ans = "conflict" THEN "fallback" ELSE "fallback_generic"
                       /\ UNCHANGED << terms, term_cache, term_result >>
                  [] ans = "raise_created" ->
                       /\ terms' = terms \cup {created}
                       /\ TermReturn(NoTerm) /\ UNCHANGED term_cache
                  [] OTHER ->
                       /\ TermReturn(NoTerm) /\ UNCHANGED << terms, term_cache >>
    /\ term_requests' = term_requests + 1
    /\ UNCHANGED << cache_key, term_calls, check_response >>
    /\ termFrame

\* after a 400: GET .../terms without search, and the same name test
FallbackSearch ==
    /\ tpc \in {"fallback", "fallback_generic"}
    /\ \E ans \in GetAnswers(terms, cache_key) :
          /\ check_response' = ans.kind
          /\ IF ans.found # {}
             THEN \E t \in ans.found :
                     /\ term_cache' = DictSet(term_cache, cache_key, t)
                     /\ TermReturn(t)
             ELSE TermReturn(NoTerm) /\ UNCHANGED term_cache
    /\ term_requests' = term_requests + 1
    /\ UNCHANGED << terms, cache_key, term_calls >>
    /\ termFrame

\* another process (a second worker) creates a term the attribute lacks
OtherProcessCreatesTerm ==
    /\ tpc # "idle"
    /\ \E key \in CacheKeys :
          /\ TermsNamed(terms, key) = {}
          /\ terms' = terms \cup { Term(Cardinality(terms) + 1, key) }
    /\ UNCHANGED << term_cache, tpc, cache_key, term_result, term_calls, term_requests,
                    check_response >>
    /\ termFrame

NextTerm ==
    \/ CallCreateAttributeTerm
    \/ SearchTerm
    \/ PostTerm
    \/ FallbackSearch
    \/ OtherProcessCreatesTerm

SpecTerm == InitTerm /\ [][NextTerm]_vars

----------------------------------------------------------------------------
(* SpecFilter: filter_products *)

\* longest candidate list handed to filter_products
MaxFilterList == 3

\* texts are sequences of characters, so that lower() and `in` do their work
Lower(c) ==
    CASE c = "N" -> "n" [] c = "S" -> "s" [] c = "B" -> "b" [] c = "A" -> "a"
      [] OTHER -> c
ToLower(text) == [i \in 1..Len(text) |-> Lower(text[i])]

\* needle in haystack (Python `in` on str)
IsSubstring(needle, haystack) ==
    \E i \in 0..(Len(haystack) - Len(needle)) :
        SubSeq(haystack, i + 1, i + Len(needle)) = needle

\* candidate summaries as the upstream lists them (spuId 0 = no spuId)
FilterCandidates ==
    { [spuId |-> 1, categoryName |-> << "S", "h", "o", "e" >>,
       title |-> << "N", "i", "k", "e", " ", "A", "i", "r" >>,
       brandName |-> << "N", "i", "k", "e" >>],
      [spuId |-> 2, categoryName |-> << "s", "h", "o", "e" >>,
       title |-> << "A", "i", "r", " ", "M", "a", "x" >>,
       brandName |-> << "N", "i", "k", "e" >>],
      [spuId |-> 3, categoryName |-> << "B", "a", "g" >>,
       title |-> << "n", "i", "k", "e", " ", "b", "a", "g" >>,
       brandName |-> << "n", "i", "k", "e" >>],
      [spuId |-> 0, categoryName |-> << >>, title |-> << >>, brandName |-> << >>] }

\* the filters: an empty list is a filter that is not configured (None or [])
SpuIdFilters == { << >>, << 1, 2 >>, << 3 >>, << 2, 1, 3 >> }
CategoryFilters == { << >>, << << "S", "H", "O" >> >>, << << "b", "a" >>, << "h", "o", "e" >> >> }
BrandFilters == { << >>, << << "N", "I", "K", "E" >> >>, << << "m", "a", "x" >>, << "b", "a", "g" >> >> }

\* p.get('spuId') in selected_spu_ids
SpuIdSelected(p, ids) == \E i \in 1..Len(ids) : ids[i] = p.spuId

\* any(cat.lower() in p.get('categoryName', '').lower() for cat in selected)
CategorySelected(p, cats) ==
    \E i \in 1..Len(cats) : IsSubstring(ToLower(cats[i]), ToLower(p.categoryName))

\* any(brand.lower() in p.get('title', '').lower() for brand in selected)
BrandSelected(p, brands) ==
    \E i \in 1..Len(brands) : IsSubstring(ToLower(brands[i]), ToLower(p.title))

InitFilter ==
    /\ candidates \in SeqsUpTo(FilterCandidates, MaxFilterList)
    /\ filter_settings \in [selected_spu_ids : SpuIdFilters,
                            selected_categories : CategoryFilters,
                            selected_brands : BrandFilters]
    /\ filtered = candidates
    /\ fpc = "ids"
    /\ InitBuildIdle /\ InitSyncIdle /\ InitPriceIdle
    /\ InitCatIdle /\ InitImgIdle /\ InitTermIdle
    /\ InitScanIdle /\ InitInfoIdle /\ InitSeoIdle /\ InitRetryIdle /\ InitCreateIdle /\ InitTaskIdle /\ InitPriceOnlyIdle

filterFrame ==
    /\ UNCHANGED << buildVars, syncVars, priceVars, catVars, imgVars, termVars,
                    scanVars, infoVars, seoVars, retryVars, createVars, taskVars, priceOnlyVars >>
    /\ UNCHANGED << candidates, filter_settings >>

\* if self.settings.selected_spu_ids: filter on spuId
FilterBySpuId ==
    /\ fpc = "ids"
    /\ filtered' = IF filter_settings.selected_spu_ids # << >>
                   THEN SelectSeq(filtered,
                            LAMBDA p : SpuIdSelected(p, filter_settings.selected_spu_ids))
                   ELSE filtered
    /\ fpc' = "categories"
    /\ filterFrame

\* if self.settings.selected_categories: filter on categoryName
FilterByCategory ==
    /\ fpc = "categories"
    /\ filtered' = IF filter_settings.selected_categories # << >>
                   THEN SelectSeq(filtered,
                            LAMBDA p : CategorySelected(p, filter_settings.selected_categories))
                   ELSE filtered
    /\ fpc' = "brands"
    /\ filterFrame

\* if self.settings.selected_brands: filter on the brand; return filtered
FilterByBrand ==
    /\ fpc = "brands"
    /\ filtered' = IF filter_settings.selected_brands # << >>
                   THEN SelectSeq(filtered,
                            LAMBDA p : BrandSelected(p, filter_settings.selected_brands))
                   ELSE filtered
    /\ fpc' = "returned"
    /\ filterFrame

NextFilter == FilterBySpuId \/ FilterByCategory \/ FilterByBrand

SpecFilter == InitFilter /\ [][NextFilter]_vars

----------------------------------------------------------------------------
(* SpecScan: the scan of saleProperties into the two value maps *)

\* longest sale-properties list scanned
MaxProps == 2

\* entries with either marker, both or none, with or without value and id
ScanProps ==
    [name : SUBSET {SizeMarker, ColorMarker}, value : {"41", ""}, propertyValueId : 0..2]

InitScan ==
    /\ sale_properties \in SeqsUpTo(ScanProps, MaxProps)
    /\ value_maps = Pending
    /\ skus_array = << >> /\ priced = << >> /\ variations = << >>
    /\ color = Unbound /\ properties = Unbound /\ bpc = "idle"
    /\ InitSyncIdle /\ InitPriceIdle
    /\ InitCatIdle /\ InitImgIdle /\ InitTermIdle /\ InitFilterIdle /\ InitInfoIdle /\ InitSeoIdle /\ InitRetryIdle /\ InitCreateIdle /\ InitTaskIdle /\ InitPriceOnlyIdle

\* for prop in sale_properties: the two tests, one after the other
ScanSaleProperties ==
    /\ value_maps = Pending
    /\ bpc = "idle" /\ ipc = "idle" /\ pc = "idle" /\ info_call = Pending
    /\ value_maps' = [size_value_map |-> size_value_map(sale_properties),
                      color_value_map |-> color_value_map(sale_properties)]
    /\ UNCHANGED << buildVars, syncVars, priceVars, catVars, imgVars, termVars,
                    filterVars, infoVars, seoVars, retryVars, createVars, taskVars, priceOnlyVars >>

NextScan == ScanSaleProperties

SpecScan == InitScan /\ [][NextScan]_vars

----------------------------------------------------------------------------
(* SpecInfo: one call of get_product_full_info(spu_id) *)

\* the payload of productDetailV3 asked for spu: the detail of some product,
\* carrying that product's id, another id, or none
DetailPayloads ==
    { DetailOf(k) : k \in SpuIds }
        \cup { [d EXCEPT !.spuId = j] : d \in { DetailOf(k) : k \in SpuIds }, j \in SpuIds }
        \cup { [f \in {"saleProperties", "skus"} |-> DetailOf(k)[f]] : k \in SpuIds }

InfoCalls ==
    [spu_id : SpuIds,
     detail : { [ok |-> FALSE] } \cup { [ok |-> TRUE, data |-> d] : d \in DetailPayloads },
     prices : PriceResponses]

InitInfo ==
    /\ info_call \in InfoCalls
    /\ info_result = Pending
    /\ InitBuildIdle /\ InitSyncIdle /\ InitPriceIdle
    /\ InitCatIdle /\ InitImgIdle /\ InitTermIdle /\ InitFilterIdle /\ InitScanIdle /\ InitSeoIdle /\ InitRetryIdle /\ InitCreateIdle /\ InitTaskIdle /\ InitPriceOnlyIdle

\* product = self.poizon.get_product_full_info(spu_id)
GetProductFullInfo ==
    /\ info_call # Pending /\ info_result = Pending
    /\ info_result' = get_product_full_info(info_call.detail, info_call.prices)
    /\ UNCHANGED << buildVars, syncVars, priceVars, catVars, imgVars, termVars,
                    filterVars, scanVars, info_call, seoVars, retryVars, createVars, taskVars, priceOnlyVars >>

NextInfo == GetProductFullInfo

SpecInfo == InitInfo /\ [][NextInfo]_vars

----------------------------------------------------------------------------
(* SpecSeo: the enrichment step of process_product *)

\* longest original title, long enough for title[:50] and title[:80] to cut
MaxTitleLen == 81

\* a text of n characters c
Rep(c, n) == [i \in 1..n |-> c]

\* s[:n]
Take(s, n) == SubSeq(s, 1, IF Len(s) < n THEN Len(s) ELSE n)

\* characters clean_chinese_chars drops
Hanzi == {"zh"}

SeoTitles == { Rep("t", 2), Rep("t", MaxTitleLen), Rep("zh", 3) }
SeoBrand == << "N", "i", "k", "e" >>
SeoCategory == << "S", "h", "o", "e" >>
SeoArticle == << "A", "1", "2" >>
SeoDescriptions == { << >>, << "d", "d" >> }

\* what the chat completion request meets: no connection, an HTTP status, a
\* body that is not the expected JSON, or a completion of n non-empty lines
GigaAnswers ==
    { [kind |-> "unreachable"], [kind |-> "malformed"] }
        \cup { [kind |-> "status", code |-> c] : c \in {401, 500} }
        \cup { [kind |-> "lines", n |-> n] : n \in 0..6 }

\* line i of a completion
AnswerLine(i) == << "L", Str(i), "x", "x", "x" >>

\* the answers to the first request and, after a 401, to the repeated one
AnswerSeqs ==
    { << a >> : a \in { b \in GigaAnswers : b # [kind |-> "status", code |-> 401] } }
        \cup { << [kind |-> "status", code |-> 401], a >> : a \in GigaAnswers }

SeoCalls ==
    [enabled : BOOLEAN, title : SeoTitles, description : SeoDescriptions,
     brand : {SeoBrand}, category : {SeoCategory}, article_number : {SeoArticle},
     answers : AnswerSeqs]

\* mutant: the basic copy without its full description
BasicSeo_NoDescription(c) ==
    [k \in {"title_ru", "seo_title", "short_description", "meta_description"} |->
        CASE k = "title_ru" -> c.title
          [] k = "seo_title" -> c.brand \o << " " >> \o Take(c.title, 50)
          [] k = "short_description" ->
                << "Kachestvennyi tovar " >> \o c.brand \o << " iz kategorii " >> \o c.category
          [] OTHER -> c.brand \o << " - " >> \o Take(c.title, 80)]

\* the basic copy returned when the service is off or the request failed
BasicSeo(c) ==
    [k \in {"title_ru", "seo_title", "short_description", "full_description",
            "meta_description"} |->
        CASE k = "title_ru" -> c.title
          [] k = "seo_title" -> c.brand \o << " " >> \o Take(c.title, 50)
          [] k = "short_description" ->
                << "Kachestvennyi tovar " >> \o c.brand \o << " iz kategorii " >> \o c.category
          [] k = "full_description" ->
                << "Opisanie tovara " >> \o c.title \o << ". " >> \o
                    (IF c.description # << >> THEN Take(c.description, 200)
                     ELSE << "Podrobnoe opisanie budet dobavleno pozzhe." >>)
          [] OTHER -> c.brand \o << " - " >> \o Take(c.title, 80)]

\* clean_chinese_chars(text)
clean_chinese_chars(text) ==
    LET kept == SelectSeq(text, LAMBDA ch : ch \notin Hanzi)
    IN IF Len(kept) < 3 THEN << >> ELSE kept

\* the response raise_for_status() is called on: the repeated one after a 401
FinalAnswer(c) ==
    IF c.answers[1] = [kind |-> "status", code |-> 401] THEN c.answers[2]
    ELSE c.answers[1]

\* the request, raise_for_status() or the reading of the body raises
RequestRaises(c) == FinalAnswer(c).kind # "lines"

\* the result built from the parsed lines, each missing line with its default
ParsedSeo(c) ==
    LET n == FinalAnswer(c).n
        cleaned_title == clean_chinese_chars(IF n > 0 THEN AnswerLine(1) ELSE c.title)
        cleaned_seo == clean_chinese_chars(IF n > 3 THEN AnswerLine(4) ELSE c.title)
        title_1 == IF Len(cleaned_title) < 5
                   THEN (IF c.article_number # << >>
                         THEN c.brand \o << " " >> \o c.article_number ELSE c.brand)
                   ELSE cleaned_title
        seo_1 == IF Len(cleaned_seo) < 5 THEN title_1 \o << " - kupit original" >>
                 ELSE cleaned_seo
        cleaned_brand == clean_chinese_chars(c.brand)
        brand_for_title == IF Len(cleaned_brand) < 2 THEN c.brand ELSE cleaned_brand
        WithBrand(t) ==
            IF t # << >> /\ ~IsSubstring(ToLower(brand_for_title), ToLower(t))
            THEN brand_for_title \o << " " >> \o t ELSE t
    IN [k \in {"title_ru", "short_description", "full_description", "seo_title",
               "meta_description", "keywords"} |->
          CASE k = "title_ru" -> WithBrand(title_1)
            [] k = "short_description" ->
                  IF n > 1 THEN AnswerLine(2) ELSE << "Tovar " >> \o c.brand
            [] k = "full_description" ->
                  IF n > 2 THEN AnswerLine(3) ELSE << "Opisanie " >> \o c.title
            [] k = "seo_title" -> WithBrand(seo_1)
            [] k = "meta_description" ->
                  IF n > 4 THEN AnswerLine(5) ELSE c.brand \o << " - kupit onlain" >>
            [] OTHER ->
                  clean_chinese_chars(IF n > 5 THEN AnswerLine(6)
                                      ELSE c.brand \o << ", " >> \o c.category)]

\* GigaChatService.translate_and_generate_seo
translate_and_generate_seo(c) ==
    IF ~c.enabled THEN BasicSeo(c)
    ELSE IF RequestRaises(c) THEN BasicSeo(c)
    ELSE ParsedSeo(c)

InitSeo ==
    /\ seo_call \in SeoCalls
    /\ seo_data = Pending
    /\ task_state = "PROGRESS"
    /\ InitBuildIdle /\ InitSyncIdle /\ InitPriceIdle
    /\ InitCatIdle /\ InitImgIdle /\ InitTermIdle /\ InitFilterIdle
    /\ InitScanIdle /\ InitInfoIdle /\ InitRetryIdle /\ InitCreateIdle /\ InitTaskIdle /\ InitPriceOnlyIdle

seoFrame ==
    UNCHANGED << buildVars, syncVars, priceVars, catVars, imgVars, termVars,
                 filterVars, scanVars, infoVars, retryVars, createVars, taskVars, priceOnlyVars >>

\* seo_data = self.gigachat.translate_and_generate_seo(...)
TranslateAndGenerateSeo ==
    /\ task_state = "PROGRESS"
    /\ seo_data' = translate_and_generate_seo(seo_call)
    /\ task_state' = "enriched"
    /\ UNCHANGED seo_call
    /\ seoFrame

\* product.title = seo_data['title_ru'] ... : a missing key raises KeyError,
\* which the handler of process_product turns into FAILURE
ReadSeoData ==
    /\ task_state = "enriched"
    /\ task_state' = IF {"title_ru", "full_description"} \subseteq DOMAIN seo_data
                     THEN "uploading" ELSE "FAILURE"
    /\ UNCHANGED << seo_call, seo_data >>
    /\ seoFrame

NextSeo == TranslateAndGenerateSeo \/ ReadSeoData

SpecSeo == InitSeo /\ [][NextSeo]_vars

----------------------------------------------------------------------------
(* SpecRetry: the retry loops of the parent create and the variation create *)

\* the create calls that carry a retry loop
RetryKinds == {"parent", "variation"}

RetryCalls == [kind : RetryKinds, outs : [1..max_retries -> Outcomes]]

InitRetry ==
    /\ retry_call \in RetryCalls
    /\ attempts = 0
    /\ rpc = "trying"
    /\ InitBuildIdle /\ InitSyncIdle /\ InitPriceIdle
    /\ InitCatIdle /\ InitImgIdle /\ InitTermIdle /\ InitFilterIdle
    /\ InitScanIdle /\ InitInfoIdle /\ InitSeoIdle /\ InitCreateIdle /\ InitTaskIdle /\ InitPriceOnlyIdle

retryFrame ==
    UNCHANGED << buildVars, syncVars, priceVars, catVars, imgVars, termVars,
                 filterVars, scanVars, infoVars, seoVars, createVars, taskVars, priceOnlyVars >>

\* one pass of `for attempt in range(max_retries)` in create_product: any
\* exception is caught; it is re-raised on the last attempt only
ParentAttempt ==
    /\ rpc = "trying" /\ retry_call.kind = "parent"
    /\ attempts < max_retries
    /\ attempts' = attempts + 1
    /\ rpc' = IF retry_call.outs[attempts + 1] = "ok" THEN "ok"
              ELSE IF attempts < max_retries - 1 THEN "trying"
              ELSE "failed"
    /\ UNCHANGED retry_call
    /\ retryFrame

\* one pass of the loop in create_single_variation: only HTTPError is caught
\* by the loop; any other exception goes to the outer handler at once
VariationAttempt ==
    /\ rpc = "trying" /\ retry_call.kind = "variation"
    /\ attempts < max_retries
    /\ attempts' = attempts + 1
    /\ rpc' = IF retry_call.outs[attempts + 1] = "ok" THEN "ok"
              ELSE IF retry_call.outs[attempts + 1] = "http_error"
                      /\ attempts # max_retries - 1
                   THEN "trying"
              ELSE "failed"
    /\ UNCHANGED retry_call
    /\ retryFrame

NextRetry == ParentAttempt \/ VariationAttempt

SpecRetry == InitRetry /\ [][NextRetry]_vars

----------------------------------------------------------------------------
(* SpecCreate: one create_product run, its three thread pools included *)

\* most variations of the product created
MaxVars == 2

\* unique_colors after sort(), final_sizes in size order
ColorLists == { << >>, << "bai" >>, << "bai", "hei" >>, << "bai", "hei", "hong" >> }
SizeLists == { << "41" >>, << "41", "42" >> }

CreateInputs ==
    [unique_colors : ColorLists, final_sizes : SizeLists, nvars : 1..MaxVars,
     attr_ok : BOOLEAN, parent_ok : BOOLEAN]

\* mutant: the variations are created whatever the parent create answered
AfterParent_Always(ok) == "variations"

\* after the parent POST: _create_variations, or the except branch
AfterParent(ok) == IF ok THEN "variations" ELSE "failed"

\* size_names = [size_results[size] for size in final_sizes]
RestoreOrder(final_sizes, done) == SelectSeq(final_sizes, LAMBDA x : x \in Range(done))

InitCreate ==
    /\ create_in \in CreateInputs
    /\ cphase = "start"
    /\ in_flight = {}
    /\ color_names = << >> /\ size_results = << >> /\ size_names = << >>
    /\ var_results = << >> /\ create_log = << >>
    /\ InitBuildIdle /\ InitSyncIdle /\ InitPriceIdle
    /\ InitCatIdle /\ InitImgIdle /\ InitTermIdle /\ InitFilterIdle
    /\ InitScanIdle /\ InitInfoIdle /\ InitSeoIdle /\ InitRetryIdle /\ InitTaskIdle /\ InitPriceOnlyIdle

createFrame ==
    UNCHANGED << buildVars, syncVars, priceVars, catVars, imgVars, termVars,
                 filterVars, scanVars, infoVars, seoVars, retryVars, taskVars, priceOnlyVars >>

\* the colour attribute: skipped for fewer than two colours, local options
\* when the global attribute is missing, else one term call per colour
SubmitColorTerms ==
    /\ cphase = "start"
    /\ IF Len(create_in.unique_colors) > 1 /\ create_in.attr_ok
       THEN /\ in_flight' = Range(create_in.unique_colors)
            /\ color_names' = << >>
       ELSE /\ in_flight' = {}
            /\ color_names' = IF Len(create_in.unique_colors) > 1
                              THEN create_in.unique_colors ELSE << >>
    /\ cphase' = "colors"
    /\ UNCHANGED << create_in, size_results, size_names, var_results, create_log >>
    /\ createFrame

\* for future in as_completed(future_to_color): color_names.append(...)
FinishColorTerm ==
    /\ cphase = "colors"
    /\ \E c \in in_flight :
          /\ in_flight' = in_flight \ {c}
          /\ color_names' = Append(color_names, c)
    /\ create_log' = Append(create_log, "term_done")
    /\ UNCHANGED << create_in, cphase, size_results, size_names, var_results >>
    /\ createFrame

\* the size attribute, once the colour pool has shut down
SubmitSizeTerms ==
    /\ cphase = "colors" /\ in_flight = {}
    /\ IF create_in.attr_ok
       THEN in_flight' = Range(create_in.final_sizes) /\ size_names' = << >>
       ELSE in_flight' = {} /\ size_names' = create_in.final_sizes
    /\ cphase' = "sizes"
    /\ UNCHANGED << create_in, color_names, size_results, var_results, create_log >>
    /\ createFrame

\* for future in as_completed(future_to_size): size_results[size] = ...; the
\* order is restored when the last one has completed
FinishSizeTerm ==
    /\ cphase = "sizes"
    /\ \E z \in in_flight :
          /\ in_flight' = in_flight \ {z}
          /\ size_results' = Append(size_results, z)
          /\ size_names' = IF in_flight = {z}
                           THEN RestoreOrder(create_in.final_sizes, Append(size_results, z))
                           ELSE size_names
    /\ create_log' = Append(create_log, "term_done")
    /\ UNCHANGED << create_in, cphase, color_names, var_results >>
    /\ createFrame

\* the parent POST (with its retries) and, if it succeeded, the submission of
\* every create_single_variation
PostParent ==
    /\ cphase = "sizes" /\ in_flight = {}
    /\ cphase' = AfterParent(create_in.parent_ok)
    /\ in_flight' = IF AfterParent(create_in.parent_ok) = "variations"
                    THEN 1..create_in.nvars ELSE {}
    /\ create_log' = Append(create_log,
                            IF create_in.parent_ok THEN "parent_ok" ELSE "parent_failed")
    /\ UNCHANGED << create_in, color_names, size_results, size_names, var_results >>
    /\ createFrame

\* one create_single_variation completes: results.append(result)
FinishVariation ==
    /\ cphase = "variations"
    /\ \E i \in in_flight :
          /\ in_flight' = in_flight \ {i}
          /\ var_results' = Append(var_results, i)
    /\ create_log' = Append(create_log, "variation_call")
    /\ UNCHANGED << create_in, cphase, color_names, size_results, size_names >>
    /\ createFrame

\* return product_id
CreateProductReturn ==
    /\ cphase = "variations" /\ in_flight = {}
    /\ cphase' = "returned"
    /\ UNCHANGED << create_in, in_flight, color_names, size_results, size_names,
                    var_results, create_log >>
    /\ createFrame

NextCreate ==
    \/ SubmitColorTerms \/ FinishColorTerm \/ SubmitSizeTerms \/ FinishSizeTerm
    \/ PostParent \/ FinishVariation \/ CreateProductReturn

SpecCreate == InitCreate /\ [][NextCreate]_vars

----------------------------------------------------------------------------
(* SpecTask: process_product_task run by concurrent Celery workers *)

\* tasks submitted to the workers
MaxTasks == 2

\* a task as /api/upload queues it
QueuedTask(spu) ==
    [spu_id |-> spu, tpos |-> "queued", existing_id |-> 0, lookup_failed |-> FALSE,
     steps |-> << >>, status |-> "none", progress |-> 0, state |-> "PENDING"]

\* self.celery_task.update_state(state='PROGRESS', meta=...): _update_status
\* stores every status, the final one included, under the state PROGRESS
update_status(task, status, progress) ==
    [task EXCEPT !.status = status, !.progress = progress, !.state = "PROGRESS"]

\* mutant: the create branch is taken whatever product_exists returned
BranchOnExisting_AlwaysCreate(found_id) == "create"

\* `if existing_id:` update, else create
BranchOnExisting(found_id) == IF found_id # 0 THEN "update" ELSE "create"

\* what /api/task_status answers for a task
get_task_status(task) ==
    [state |-> task.state,
     progress |-> CASE task.state = "PENDING" -> 0
                    [] task.state = "PROGRESS" -> task.progress
                    [] task.state = "SUCCESS" -> 100
                    [] OTHER -> 0]

InitTask ==
    /\ task_table \in [1..MaxTasks -> { QueuedTask(spu) : spu \in SpuIds }]
    /\ dest_parents \in { << >>, << "1" >> }
    /\ InitBuildIdle /\ InitSyncIdle /\ InitPriceIdle
    /\ InitCatIdle /\ InitImgIdle /\ InitTermIdle /\ InitFilterIdle
    /\ InitScanIdle /\ InitInfoIdle /\ InitSeoIdle /\ InitRetryIdle /\ InitCreateIdle /\ InitPriceOnlyIdle

taskFrame ==
    UNCHANGED << buildVars, syncVars, priceVars, catVars, imgVars, termVars,
                 filterVars, scanVars, infoVars, seoVars, retryVars, createVars, priceOnlyVars >>

\* the step `step` of task t is done and leaves the task as `after`
TaskStep(t, step, after) ==
    task_table' = [task_table EXCEPT ![t] = [after EXCEPT !.steps = Append(@, step)]]

\* a worker picks the task up: _update_status(PROGRESS, 10)
StartTask ==
    /\ \E t \in 1..MaxTasks :
          /\ task_table[t].tpos = "queued"
          /\ task_table' = [task_table EXCEPT
                               ![t] = [update_status(@, "PROGRESS", 10) EXCEPT
                                          !.tpos = "fetch"]]
    /\ UNCHANGED dest_parents
    /\ taskFrame

\* product = get_product_full_info(spu_id); None raises: FAILURE
FetchProduct ==
    /\ \E t \in 1..MaxTasks, ok \in BOOLEAN :
          /\ task_table[t].tpos = "fetch"
          /\ TaskStep(t, "fetch",
                 IF ok THEN [update_status(task_table[t], "PROGRESS", 40) EXCEPT
                                !.tpos = "enrich"]
                 ELSE [update_status(task_table[t], "FAILURE", 0) EXCEPT
                          !.tpos = "return"])
    /\ UNCHANGED dest_parents
    /\ taskFrame

\* translate_and_generate_seo and the colour translation: no failure leaves them
EnrichProduct ==
    /\ \E t \in 1..MaxTasks :
          /\ task_table[t].tpos = "enrich"
          /\ TaskStep(t, "enrich",
                 [update_status(task_table[t], "PROGRESS", 70) EXCEPT !.tpos = "check"])
    /\ UNCHANGED dest_parents
    /\ taskFrame

\* existing_id = product_exists(product.sku): None on a request error
CheckExists ==
    /\ \E t \in 1..MaxTasks, lookup_ok \in BOOLEAN :
          LET found == { i \in 1..Len(dest_parents) :
                            dest_parents[i] = Str(task_table[t].spu_id) }
              id == IF lookup_ok /\ found # {}
                    THEN CHOOSE i \in found : \A j \in found : i <= j ELSE 0
          IN /\ task_table[t].tpos = "check"
             /\ TaskStep(t, "check",
                    [update_status(task_table[t], "PROGRESS", 75) EXCEPT
                        !.tpos = BranchOnExisting(id),
                        !.existing_id = id,
                        !.lookup_failed = ~lookup_ok])
    /\ UNCHANGED dest_parents
    /\ taskFrame

\* new_id = create_product(...): None raises: FAILURE, else SUCCESS
CreateProduct ==
    /\ \E t \in 1..MaxTasks, ok \in BOOLEAN :
          /\ task_table[t].tpos = "create"
          /\ dest_parents' = IF ok THEN Append(dest_parents, Str(task_table[t].spu_id))
                             ELSE dest_parents
          /\ TaskStep(t, "create",
                 [update_status(task_table[t], IF ok THEN "SUCCESS" ELSE "FAILURE",
                                IF ok THEN 100 ELSE 0) EXCEPT !.tpos = "return"])
    /\ taskFrame

\* updated_count = update_product_variations(...): it never raises
UpdateProduct ==
    /\ \E t \in 1..MaxTasks :
          /\ task_table[t].tpos = "update"
          /\ TaskStep(t, "update",
                 [update_status(task_table[t], "SUCCESS", 100) EXCEPT !.tpos = "return"])
    /\ UNCHANGED dest_parents
    /\ taskFrame

\* process_product_task returns the last status: Celery stores the state
\* SUCCESS with that dictionary as the result
TaskReturn ==
    /\ \E t \in 1..MaxTasks :
          /\ task_table[t].tpos = "return"
          /\ task_table' = [task_table EXCEPT ![t].state = "SUCCESS", ![t].tpos = "done"]
    /\ UNCHANGED dest_parents
    /\ taskFrame

NextTask ==
    \/ StartTask \/ FetchProduct \/ EnrichProduct \/ CheckExists
    \/ CreateProduct \/ UpdateProduct \/ TaskReturn

SpecTask == InitTask /\ [][NextTask]_vars

----------------------------------------------------------------------------
(* SpecPriceOnly: one upstream price entry written by the full path *)
(* (get_product_full_info, then create or update of the variations) and by *)
(* update_product_prices_only *)

\* Python int() of the rational num / den (den > 0): truncation towards zero
Int_(num, den) ==
    IF num >= 0 THEN num \div den ELSE -((-num) \div den)

\* raw upstream prices: small ones, and ones around the minor-unit threshold
PriceOnlyRaw == {1, 3, 100, 101, 10000, 10001, 15000, 20050}

PriceOnlyInputs ==
    [price : PriceOnlyRaw, currency_rate : {135, 125, 10}, markup_rubles : {-100, 0, 500}]

\* the price the variations get on create_product/_create_variations and on
\* update_product_variations: variation['price'] is the corrected yuan price
FullPathPrice(e) ==
    apply_price_transformation(
        [currency_rate |-> e.currency_rate, markup_rubles |-> e.markup_rubles],
        MinorUnitCorrection(e.price))

\* final_price of update_product_prices_only for prices[sku_id]['price']
PricesOnlyPrice(e) ==
    Int_(e.price * e.currency_rate + e.markup_rubles * RateScale, RateScale)

InitPriceOnly ==
    /\ po_in \in PriceOnlyInputs
    /\ po_out = << >>
    /\ InitBuildIdle /\ InitSyncIdle /\ InitPriceIdle
    /\ InitCatIdle /\ InitImgIdle /\ InitTermIdle /\ InitFilterIdle
    /\ InitScanIdle /\ InitInfoIdle /\ InitSeoIdle /\ InitRetryIdle
    /\ InitCreateIdle /\ InitTaskIdle

priceOnlyFrame ==
    UNCHANGED << buildVars, syncVars, priceVars, catVars, imgVars, termVars,
                 filterVars, scanVars, infoVars, seoVars, retryVars, createVars,
                 taskVars >>

\* the entry goes through get_product_full_info and the variation write
WriteFullPath ==
    /\ "full" \notin DOMAIN po_out
    /\ po_out' = DictSet(po_out, "full", FullPathPrice(po_in))
    /\ UNCHANGED po_in
    /\ priceOnlyFrame

\* the entry goes through update_product_prices_only
WritePricesOnly ==
    /\ "prices_only" \notin DOMAIN po_out
    /\ po_out' = DictSet(po_out, "prices_only", PricesOnlyPrice(po_in))
    /\ UNCHANGED po_in
    /\ priceOnlyFrame

NextPriceOnly == WriteFullPath \/ WritePricesOnly

SpecPriceOnly == InitPriceOnly /\ [][NextPriceOnly]_vars

----------------------------------------------------------------------------
(* Claims on the variant builder *)

\* C1: for every detail and every price map the variation list holds exactly
\* one variation per priced SKU, whether or not the SKU is in the skus array,
\* and every variation's size is a non-empty string.
C1_OneVariationPerPricedSku ==
    /\ bpc # "raised"
    /\ bpc \in {"loop", "returned"} =>
          /\ Len(variations) = Len(priced)
          /\ \A i \in 1..Len(variations) :
                /\ variations[i].sku_id = priced[i].sku_id
                /\ variations[i].size # "" /\ variations[i].size # None

\* C10: a raw price strictly above 10000 is divided by 100, a raw price of
\* 10000 or less is kept (15000 gives 150, 5000 gives 5000, 10000 gives
\* 10000); variation prices are in hundredths of a yuan.
C10_MinorUnitHeuristic ==
    \A i \in 1..Len(variations) :
        LET raw == priced[i].price
            hundredths == variations[i].price
        IN /\ raw > 10000 => hundredths = raw
           /\ raw <= 10000 => hundredths = 100 * raw
           /\ raw = 15000 => hundredths = 100 * 150
           /\ raw = 5000 => hundredths = 100 * 5000
           /\ raw = 10000 => hundredths = 100 * 10000

\* C10 witness: a product returned with one price above and one at the threshold
C10_Witness ==
    /\ bpc = "returned"
    /\ Len(variations) = 2
    /\ priced[1].price = 15000 /\ variations[1].price = 15000
    /\ priced[2].price = 10000 /\ variations[2].price = 1000000

----------------------------------------------------------------------------
(* Claims on sync_all_products and the destination *)

\* C2: running the create-or-update step twice in succession for the same
\* upstream id leaves exactly one parent with that SKU: once the first run
\* has created the parent, the second run finds it and takes the update path.
C2_SecondRunUpdates ==
    \A i \in 1..(Len(log) - 1) :
        ( /\ update_existing
          /\ Len(log) = i + 1
          /\ log[i].spu = log[i + 1].spu
          /\ \A j \in 1..(i - 1) : log[j].spu # log[i].spu
          /\ log[i].outcome = "created"
          /\ log[i + 1].path # "none" )
        => /\ log[i + 1].path = "update"
           /\ Cardinality(ParentsWithSku(catalog, Str(log[i].spu))) = 1

SourceOf(var) ==
    CHOOSE i \in 1..Len(product.variations) : product.variations[i].sku_id = var.sku

C4_WriteFailureIsError ==
    \A k \in 1..Len(log) : log[k].write_failed => log[k].outcome = "error"

\* C5: every filtered candidate is processed in order and gets exactly one of
\* created, updated, skipped, error; the counters add up to the number of
\* candidates processed; an error never stops the loop before the last one.
C5_OneOutcomePerCandidate ==
    /\ idx = Len(log) + 1
    /\ Len(log) <= Len(products_list)
    /\ \A k \in 1..Len(log) :
          /\ log[k].spu = products_list[k]
          /\ log[k].outcome \in {"created", "updated", "skipped", "error"}
    /\ \A o \in {"created", "updated", "skipped", "error"} :
          counts[o] = Cardinality({ k \in 1..Len(log) : log[k].outcome = o })
    /\ counts.created + counts.updated + counts.skipped + counts.error = Len(log)
    /\ pc = "done" => Len(log) = Len(products_list)
    /\ pc # "done" => ENABLED Next

\* C5 witness: the first candidate ended in error and the second was created
C5_Witness ==
    /\ pc = "done" /\ Len(products_list) = 2
    /\ log[1].outcome = "error" /\ log[2].outcome = "created"
    /\ counts.error = 1 /\ counts.created = 1

\* C6: a detail fetch or price fetch that fails or returns empty gives the
\* product the outcome error, and the batch goes on to the last candidate.
C6_FetchFailureIsError ==
    /\ \A k \in 1..Len(log) :
          (log[k].detail = "failed" \/ log[k].prices \in {"failed", "empty"})
              => log[k].outcome = "error"
    /\ pc = "done" => Len(log) = Len(products_list)

\* what update_product_variations may change in one step
UpdateFrame ==
    /\ Len(catalog') = Len(catalog)
    /\ \A p \in 1..Len(catalog) :
          /\ catalog'[p].id = catalog[p].id
          /\ catalog'[p].sku = catalog[p].sku
          /\ catalog'[p].color_options = catalog[p].color_options
          /\ Len(catalog'[p].variations) = Len(catalog[p].variations)
          /\ \A k \in 1..Len(catalog[p].variations) :
                LET before == catalog[p].variations[k]
                    after == catalog'[p].variations[k]
                IN /\ after.id = before.id
                   /\ after.sku = before.sku
                   /\ after.attributes = before.attributes
                   /\ (after.regular_price # before.regular_price
                          \/ after.stock_quantity # before.stock_quantity)
                        => /\ p = existing_id
                           /\ \E i \in 1..Len(product.variations) :
                                 product.variations[i].sku_id = before.sku

\* C7: update_product_variations changes only the price and stock of the
\* destination variations whose SKU is a normalized variant's sku_id; it
\* creates and deletes nothing, changes no attribute and no SKU, and leaves
\* the parent and every unmatched variation as they were.
C7_UpdateChangesOnlyPriceAndStock == [][pc = "update" => UpdateFrame]_vars

\* C7 witness: an update wrote one of two variations and left the other
C7_Witness ==
    /\ Len(log) = 2 /\ log[2].path = "update"
    /\ log[2].written = 1 /\ log[2].returned = 1
    /\ Len(catalog) = 1 /\ Len(catalog[1].variations) = 2
    /\ catalog[1].variations[1].regular_price # catalog[1].variations[2].regular_price

\* C8: the value update_product_variations returns is the number of
\* destination variations it wrote, whatever the individual writes did.
C8_ReturnCountsWrites ==
    \A k \in 1..Len(log) :
        log[k].path = "update" => log[k].returned = log[k].written

----------------------------------------------------------------------------
(* Claims on the price transformer *)

\* C9: apply_price_transformation(p) is the whole number nearest to
\* p * currency_rate + markup when markup > 0 and to p * currency_rate
\* otherwise (a tie goes to the even neighbour, as round does); the markup is
\* added after the conversion; 100 yuan at 13.5 gives 1350 without markup and
\* 1850 with a markup of 500.
C9_PriceFormula ==
    p_out # << >> =>
        LET r == p_out[1]
            D == PriceScale * RateScale
            N == p_in * settings.currency_rate
                   + (IF settings.markup_rubles > 0 THEN settings.markup_rubles * D ELSE 0)
        IN /\ r \in Int
           /\ 2 * (r * D - N) <= D
           /\ 2 * (N - r * D) <= D
           /\ (2 * (r * D - N) = D \/ 2 * (N - r * D) = D) => r % 2 = 0
           /\ (p_in = 10000 /\ settings.currency_rate = 135) =>
                 /\ settings.markup_rubles = 0 => r = 1350
                 /\ settings.markup_rubles = 500 => r = 1850

\* C9 witness: 100 yuan at 13.5 with a markup of 500 has been transformed
C9_Witness ==
    /\ p_in = 10000
    /\ settings = [currency_rate |-> 135, markup_rubles |-> 500]
    /\ p_out = << 1850 >>

----------------------------------------------------------------------------
(* Claims on category resolution *)

\* the tree once every category of the response is in it
WholeTree(cats) == [i \in 1..Len(cats) |-> [name |-> cats[i].name, parent |-> cats[i].parent]]

\* ids of the categories whose root-to-leaf path is `path`
WithFullPath(cats, path) ==
    { i \in 1..Len(cats) : _build_category_path(WholeTree(cats), i) = path }

\* ids of the categories named as the last segment of `path`
WithLastName(cats, path) ==
    { i \in 1..Len(cats) : << cats[i].name >> = Split(path)[Len(Split(path))] }

\* C11: once the categories are loaded, get_category_id(path) returns the id
\* of a category whose full root-to-leaf path is path whenever there is one;
\* only when there is none, the id of a category named as the last segment of
\* path; and 0 when there is none either.
C11_PathBeforeName ==
    (cpc = "answered" /\ cat_response.status_code = 200) =>
        LET cats == cat_response.body
            full == WithFullPath(cats, category_path)
            named == WithLastName(cats, category_path)
        IN /\ full # {} => cat_id \in full
           /\ (full = {} /\ named # {}) => cat_id \in named
           /\ (full = {} /\ named = {}) => cat_id = 0

----------------------------------------------------------------------------
(* Claims on the images *)

\* the images a colour received
SliceOf(id) == IF id \in DOMAIN color_images_map THEN color_images_map[id] ELSE << >>

\* C12: without explicit grouping, with n >= 1 images and k >= 1 colours, the
\* i-th colour in ascending propertyValueId order receives exactly the slice
\* images[i*(n div k) .. (i+1)*(n div k)); the slices are disjoint, each has
\* n div k images, and when k divides n every image goes to exactly one
\* colour (20 images and 4 colours: 5 each, 20 used).
C12_ContiguousEqualSlices ==
    LET ids == DOMAIN color_value_map(sale_properties)
        n == Len(images)
        k == Cardinality(ids)
        per == n \div k
        rank(id) == Cardinality({ j \in ids : j < id })
    IN (ipc = "done" /\ ColorBlockOf(image_block) = << >> /\ n >= 1 /\ k >= 1) =>
          /\ DOMAIN color_images_map \subseteq ids
          /\ \A id \in ids :
                /\ Len(SliceOf(id)) = per
                /\ \A p \in 1..per : SliceOf(id)[p] = images[rank(id) * per + p]
          /\ \A a, b \in ids : a # b => Range(SliceOf(a)) \cap Range(SliceOf(b)) = {}
          /\ n % k = 0 =>
                \A p \in 1..n :
                    Cardinality({ id \in ids : images[p] \in Range(SliceOf(id)) }) = 1
          /\ (n = 20 /\ k = 4) =>
                /\ \A id \in ids : Len(SliceOf(id)) = 5
                /\ UNION { Range(SliceOf(id)) : id \in ids } = Range(images)

\* C12 witness: 20 images were split among 4 colours listed in descending order
C12_Witness ==
    /\ ipc = "done" /\ ColorBlockOf(image_block) = << >>
    /\ Len(images) = 20
    /\ Len(sale_properties) = 4
    /\ sale_properties[1].propertyValueId = 6 /\ sale_properties[4].propertyValueId = 3
    /\ color_images_map[3] = << 1, 2, 3, 4, 5 >>
    /\ color_images_map[6] = << 16, 17, 18, 19, 20 >>

----------------------------------------------------------------------------
(* Claims on the term registry *)

\* the destination holds at most one term per (attribute id, term name), and
\* a term a call returned is the one the cache holds for the key
TermsUniqueAndCached ==
    /\ \A t1, t2 \in terms :
          (t1.attribute_id = t2.attribute_id /\ t1.name = t2.name) => t1 = t2
    /\ (tpc = "ready" /\ term_result # NoTerm) =>
          (cache_key \in DOMAIN term_cache /\ term_cache[cache_key] = term_result)

\* a call for a key the cache holds returns the cached term, sends nothing
\* and changes nothing; the cache never drops or changes an entry
CachedCallIsLocal ==
    /\ (term_calls' = term_calls + 1 /\ cache_key' \in DOMAIN term_cache) =>
          /\ term_result' = term_cache[cache_key']
          /\ tpc' = "ready"
          /\ term_requests' = term_requests
          /\ terms' = terms /\ term_cache' = term_cache
    /\ \A key \in DOMAIN term_cache :
          key \in DOMAIN term_cache' /\ term_cache'[key] = term_cache[key]

C23_ConflictRecovered ==
    [][ /\ (tpc = "fallback" /\ tpc' = "ready" /\ check_response' = "page") =>
              /\ term_result' \in TermsNamed(terms, cache_key)
              /\ cache_key \in DOMAIN term_cache'
              /\ term_cache'[cache_key] = term_result'
              /\ terms' = terms
        /\ (tpc = "fallback_generic" /\ tpc' = "ready"
                /\ TermsNamed(terms, cache_key) = {}) =>
              /\ term_result' = NoTerm
              /\ term_cache' = term_cache /\ terms' = terms ]_vars

----------------------------------------------------------------------------
(* Claims on the candidate filter *)

\* the candidate passes every configured filter, the brand filter being a
\* test of the candidate's brand
PassesAllFilters(p) ==
    /\ filter_settings.selected_spu_ids # << >> =>
          p.spuId \in Range(filter_settings.selected_spu_ids)
    /\ filter_settings.selected_categories # << >> =>
          \E c \in Range(filter_settings.selected_categories) :
              IsSubstring(ToLower(c), ToLower(p.categoryName))
    /\ filter_settings.selected_brands # << >> =>
          \E b \in Range(filter_settings.selected_brands) :
              IsSubstring(ToLower(b), ToLower(p.brandName))

\* C14: filter_products returns exactly the candidates, in their original
\* order, that satisfy every configured filter at once: id in the allow-list,
\* a selected category a case-insensitive substring of the category name, a
\* selected brand a case-insensitive substring of the candidate's brand; a
\* filter that is not configured excludes nothing.
C14_FilterIsConjunction ==
    fpc = "returned" => filtered = SelectSeq(candidates, PassesAllFilters)

\* C15: a detail payload with missing or malformed image fields (absent or
\* null image block, non-numeric colorBlockImages keys) never makes
\* get_product_full_info give up: the product is still returned, the image
\* list or the colour-to-image map being simply empty.
C15_MalformedDegradesToEmpty ==
    /\ ipc # "raised"
    /\ (ipc = "done" /\ image_block.kind = "absent") =>
          (images = << >> /\ color_images_map = << >>)

----------------------------------------------------------------------------
(* Claims on the attribute extractor and the product identity *)

\* C16: after the scan no propertyValueId is a key of both size_value_map and
\* color_value_map, and every key of either map comes from an entry whose
\* name holds a marker (an entry with neither marker is in neither map).
C16_MapsDisjoint ==
    value_maps # Pending =>
        /\ DOMAIN value_maps.size_value_map \cap DOMAIN value_maps.color_value_map = {}
        /\ \A id \in DOMAIN value_maps.size_value_map \cup DOMAIN value_maps.color_value_map :
              \E i \in 1..Len(sale_properties) :
                  /\ sale_properties[i].propertyValueId = id
                  /\ sale_properties[i].name # {}

\* C17: the sku of the product get_product_full_info(spu_id) returns is the
\* string form of the requested spu_id.
C17_SkuIsRequestedId ==
    (info_result # Pending /\ info_result # NoProduct) =>
        info_result.sku = Str(info_call.spu_id)

----------------------------------------------------------------------------
(* Claims on the enrichment step *)

\* the enrichment service is off, unreachable or answers with an error
ServiceUnavailable ==
    \/ ~seo_call.enabled
    \/ LET a == seo_call.answers[Len(seo_call.answers)]
       IN a.kind \in {"unreachable", "malformed", "status"}

\* the service answered with fewer than the six lines asked for
ShortAnswer ==
    /\ seo_call.enabled
    /\ LET a == seo_call.answers[Len(seo_call.answers)]
       IN a.kind = "lines" /\ a.n < 6

\* the copy built from the brand and the cut original title
TemplatedCopy ==
    /\ seo_data.title_ru = seo_call.title
    /\ seo_data.seo_title =
          seo_call.brand \o << " " >> \o
              [i \in 1..(IF Len(seo_call.title) > 50 THEN 50 ELSE Len(seo_call.title)) |->
                  seo_call.title[i]]
    /\ "full_description" \in DOMAIN seo_data

\* C18 as stated: when the service is off, unreachable, answers with an error
\* or with fewer lines than expected, the templated copy is returned, it holds
\* the fields process_product indexes, and process_product does not end in
\* FAILURE at the enrichment step.
C18_ShortAnswerIsTemplated ==
    /\ (seo_data # Pending /\ (ServiceUnavailable \/ ShortAnswer)) => TemplatedCopy
    /\ task_state # "FAILURE"

\* C18 amended: the templated copy is returned when the service is off,
\* unreachable or answers with an error; after an answer of fewer lines each
\* missing field gets its own default; in every case title_ru and
\* full_description are present and process_product does not end in FAILURE
\* at the enrichment step.
C18_FallbackKeepsTaskAlive ==
    /\ (seo_data # Pending /\ ServiceUnavailable) => TemplatedCopy
    /\ seo_data # Pending => {"title_ru", "full_description"} \subseteq DOMAIN seo_data
    /\ task_state # "FAILURE"

C18_Witness ==
    /\ task_state = "uploading"
    /\ seo_call.enabled
    /\ seo_call.answers = << [kind |-> "status", code |-> 401], [kind |-> "unreachable"] >>
    /\ Len(seo_call.title) > 50
    /\ Len(seo_data.seo_title) = Len(seo_call.brand) + 51

----------------------------------------------------------------------------
(* Claims on the size of a variation *)

\* indices of the size-marked sale properties
SizeMarked == { j \in 1..Len(sale_properties) : "SIZE" \in sale_properties[j].name }

\* C19: the size of the variation of a priced SKU is (1) a SizeMap value of
\* one of the SKU's own property references, a reference that is a key of
\* both maps counting as a size; (2) only if there is none, the value of the
\* N-th size-marked sale property, N being the SKU's position in the skus
\* array; (3) only if neither yields anything, the raw SKU id string.
C19_ThreeTierSize ==
    \A i \in 1..Len(variations) :
        LET id == priced[i].sku_id
            at == { k \in 1..Len(skus_array) : Str(skus_array[k].skuId) = id }
            InSizeMap(r) ==
                \E j \in SizeMarked :
                    /\ sale_properties[j].propertyValueId = r
                    /\ sale_properties[j].value # "" /\ r # 0
        IN IF at = {} THEN variations[i].size = id
           ELSE LET pos == CHOOSE k \in at : \A l \in at : k <= l
                    own == { r \in Range(skus_array[pos].properties) : InSizeMap(r) }
                    nth == { j \in SizeMarked :
                                Cardinality({ k \in SizeMarked : k <= j }) = pos }
                IN IF own # {}
                   THEN \E r \in own, j \in SizeMarked :
                            /\ sale_properties[j].propertyValueId = r
                            /\ variations[i].size = sale_properties[j].value
                   ELSE IF nth # {} /\ \A j \in nth : sale_properties[j].value # ""
                        THEN \A j \in nth : variations[i].size = sale_properties[j].value
                        ELSE variations[i].size = id

\* C19 witness: a product returned with a size taken from a reference that is
\* also a colour key (tier 1), a positional size (tier 2) or a SKU id (tier 3)
C19_Witness ==
    /\ bpc = "returned"
    /\ sale_properties = SharedIdProps
    /\ Len(variations) = 2
    /\ skus_array = << [skuId |-> 1, properties |-> << 1 >>],
                       [skuId |-> 2, properties |-> << >>] >>
    /\ priced[1].sku_id = "1" /\ variations[1].size = "41"
    /\ "color" \notin DOMAIN variations[1]
    /\ priced[2].sku_id = "2" /\ variations[2].size = "42"

----------------------------------------------------------------------------
(* Claims on the retry loops *)

\* C20: a parent-create or variation-create call is attempted at most 3
\* times; once the call is over, every attempt that failed with an HTTP error
\* or a timeout while attempts remained was followed by another attempt.
C20_RetryWhileAttemptsRemain ==
    /\ attempts <= 3
    /\ rpc \in {"ok", "failed"} =>
          \A a \in 1..attempts :
              (retry_call.outs[a] \in {"http_error", "timeout"} /\ a < 3) => attempts > a

----------------------------------------------------------------------------
(* Claims on one create_product run *)

\* C21: the parent's colour options, its size options and the collected
\* variation results are in the sorted order of the product, whatever the
\* completion order of the worker threads.
C21_DeterministicOrder ==
    cphase = "returned" =>
        /\ (Len(create_in.unique_colors) > 1 => color_names = create_in.unique_colors)
        /\ size_names = create_in.final_sizes
        /\ var_results = [i \in 1..create_in.nvars |-> i]

\* C22: a variation-create call happens only after the parent create has
\* succeeded and after every colour and size term call of the run has
\* finished; after a failed parent create there is none.
C22_VariationsAfterParentAndTerms ==
    \A i \in 1..Len(create_log) :
        create_log[i] = "variation_call" =>
            /\ \E j \in 1..(i - 1) : create_log[j] = "parent_ok"
            /\ \A j \in 1..Len(create_log) : create_log[j] # "parent_failed"
            /\ \A j \in (i + 1)..Len(create_log) : create_log[j] # "term_done"
            /\ Cardinality({ j \in 1..(i - 1) : create_log[j] = "term_done" }) =
                  (IF create_in.attr_ok
                   THEN Len(create_in.final_sizes) +
                        (IF Len(create_in.unique_colors) > 1
                         THEN Len(create_in.unique_colors) ELSE 0)
                   ELSE 0)

\* C22 witness: a run with colour and size terms whose variations were created
C22_Witness ==
    /\ cphase = "returned"
    /\ create_in.attr_ok /\ Len(create_in.unique_colors) = 2
    /\ create_log = << "term_done", "term_done", "term_done", "term_done",
                       "parent_ok", "variation_call", "variation_call" >>

----------------------------------------------------------------------------
(* Claims on process_product and its tasks *)

\* the step sequences one attempt may have gone through
StepOrders ==
    { << >>, << "fetch" >>, << "fetch", "enrich" >>, << "fetch", "enrich", "check" >>,
      << "fetch", "enrich", "check", "create" >>,
      << "fetch", "enrich", "check", "update" >> }

\* C24: within one process_product attempt the steps occur only in the order
\* fetch, enrich, existence check, then exactly one of create (SKU not found)
\* or update (SKU found); the attempt ends in exactly one terminal status and
\* no step runs after it.
C24_StepOrder ==
    \A t \in 1..Len(task_table) :
        LET task == task_table[t]
            last == IF task.steps = << >> THEN "none" ELSE task.steps[Len(task.steps)]
        IN /\ task.steps \in StepOrders
           /\ last = "create" => task.existing_id = 0
           /\ last = "update" => task.existing_id # 0
           /\ task.status \in {"SUCCESS", "FAILURE"} <=> task.tpos \in {"return", "done"}
           /\ task.status = "SUCCESS" => last \in {"create", "update"}
           /\ (task.tpos \in {"return", "done"} /\ last \notin {"create", "update"}) =>
                 (task.status = "FAILURE" /\ last = "fetch")

\* C24 witness: one task ended after an update, the other after a create
C24_Witness ==
    /\ task_table[1].tpos = "done" /\ task_table[1].status = "SUCCESS"
    /\ task_table[1].steps = << "fetch", "enrich", "check", "update" >>
    /\ task_table[2].tpos = "done" /\ task_table[2].status = "SUCCESS"
    /\ task_table[2].steps = << "fetch", "enrich", "check", "create" >>

\* C28: when no existence lookup failed, the tasks, however interleaved,
\* leave at most one parent product per SKU in the destination.
C28_OneParentPerSku ==
    (\A t \in 1..Len(task_table) : ~task_table[t].lookup_failed) =>
        \A i, j \in 1..Len(dest_parents) : dest_parents[i] = dest_parents[j] => i = j

\* C30: a task whose product ended in FAILURE is never reported with state
\* SUCCESS and progress 100.
C30_FailureNotReportedAsSuccess ==
    \A t \in 1..Len(task_table) :
        task_table[t].status = "FAILURE" =>
            ~( get_task_status(task_table[t]).state = "SUCCESS"
               /\ get_task_status(task_table[t]).progress = 100 )

----------------------------------------------------------------------------
(* Claims on the existence lookup *)

\* C27: the create path is never taken for an SKU the destination already
\* holds, so the destination never holds two parents with one SKU, whether
\* or not an existence lookup failed.
C27_FailedLookupIsNotAbsence ==
    /\ pc \in {"create", "variations"} =>
          ParentsWithSku(catalog, product.sku) \subseteq {new_id}
    /\ \A i, j \in 1..Len(catalog) : catalog[i].sku = catalog[j].sku => i = j

----------------------------------------------------------------------------
(* Claims on the colour of a variation *)

\* C25: a variation carries a colour only if its own SKU is in the skus array
\* and one of that SKU's property references is a colour id; what was
\* processed before it in the same product plays no part.
C25_ColorFromOwnSku ==
    \A i \in 1..Len(variations) :
        LET at == { k \in 1..Len(skus_array) :
                       Str(skus_array[k].skuId) = priced[i].sku_id }
            ColorRef(r) ==
                \E j \in 1..Len(sale_properties) :
                    /\ "COLOR" \in sale_properties[j].name
                    /\ sale_properties[j].propertyValueId = r
        IN "color" \in DOMAIN variations[i] =>
              \E k \in at : \E r \in Range(skus_array[k].properties) : ColorRef(r)

----------------------------------------------------------------------------
(* Claims on the price-only update *)

\* C26: for one upstream price entry, currency rate and markup,
\* update_product_prices_only writes the same regular_price as the create
\* and update paths do.
C26_SamePriceOnBothPaths ==
    ("full" \in DOMAIN po_out /\ "prices_only" \in DOMAIN po_out) =>
        po_out["prices_only"] = po_out["full"]

----------------------------------------------------------------------------
(* Claims on the category cache *)

\* C29: after _load_categories, for every loaded category c the cache maps
\* the full path from the root to c to the id of c, whatever the order of the
\* categories in the response and whatever the other categories are named
\* (the categories of the destination have pairwise distinct full paths).
C29_CacheHoldsEveryFullPath ==
    (cpc = "ready" /\ cat_response.status_code = 200) =>
        LET cats == cat_response.body
            full(i) == _build_category_path(WholeTree(cats), i)
        IN (\A i, j \in 1..Len(cats) : full(i) = full(j) => i = j) =>
              \A i \in 1..Len(cats) :
                  /\ full(i) \in DOMAIN category_cache
                  /\ category_cache[full(i)] = i

====
